---- MODULE Spec2Model ----
(***************************************************************************)
(* Scroll, the 9S data envelope of src/scroll.py: a key, a payload and a   *)
(* metadata record; a process-wide registry from key to the envelope       *)
(* registered last; operators that build child envelopes and attach a      *)
(* backward rule; a backward pass that resolves parents by key.            *)
(*                                                                         *)
(* Python objects live in `heap` (an object is its index: closures capture *)
(* objects, the registry and meta.prev hold keys).  Text is a sequence of  *)
(* tokens, so that startswith("/") and prefix listing are computed.        *)
(* SHA-256 is modelled as injective on its input text.  Floats are exact   *)
(* and integer valued; a power whose value is not an integer is outside    *)
(* the modelled inputs (Representable).                                    *)
(***************************************************************************)
EXTENDS Integers, Sequences, FiniteSets, TLC

VARIABLES
  heap,       \* the Scroll objects built so far, in construction order
  registry,   \* Scroll._registry: key -> object, in insertion order
  now,        \* int(time.time() * 1000)
  ret,        \* the last call: its name, arguments, exception and result
  clearedAt,  \* how many objects existed at the last Scroll.clear()
  calls,      \* state-changing calls made so far
  budget,     \* how many such calls the run makes
  pool        \* the Hokage: its ninjas' counters and the call in progress

vars == <<heap, registry, now, ret, clearedAt, calls, budget, pool>>

(***************************************************************************)
(* Bounds of the model.                                                    *)
(***************************************************************************)
MaxObjs == 5
MaxTime == 1
MaxNum == 2
MaxDepth == 2
NamespaceCalls == 3
WireCalls == 4
BackwardCalls == 4
TypeCalls == 3
FlowCalls == 3
ListCalls == 4
OrderCalls == 4
ExprMax == 3

(* int(time.time() * 1000) % 100000 in _generate_key; str(data)[:30] *)
TimeMod == 100000
PreviewLen == 30

(***************************************************************************)
(* Payload values: data is any Python value; the model has int, float,     *)
(* str, list, dict (insertion ordered), None and a plain object() that the *)
(* interchange format cannot represent.                                    *)
(***************************************************************************)
VInt(n) == [t |-> "int", v |-> n]
VFloat(n) == [t |-> "float", v |-> n]
VStr(s) == [t |-> "str", v |-> s]
VList(s) == [t |-> "list", v |-> s]
VDict(s) == [t |-> "dict", v |-> s]
None == [t |-> "none", v |-> 0]
VObj(i) == [t |-> "obj", v |-> i]

IsNum(d) == d.t \in {"int", "float"}
IsInt(d) == d.t = "int"
IsStr(d) == d.t = "str"
IsList(d) == d.t = "list"
IsDict(d) == d.t = "dict"

Min(a, b) == IF a < b THEN a ELSE b

RECURSIVE Join(_, _)
Join(ss, sep) ==
  IF ss = <<>> THEN <<>>
  ELSE IF Len(ss) = 1 THEN ss[1]
  ELSE ss[1] \o sep \o Join(Tail(ss), sep)

StartsWith(s, p) == Len(p) <= Len(s) /\ SubSeq(s, 1, Len(p)) = p

DictKeys(m) == {m[i].k : i \in 1..Len(m)}
DictGet(m, k) ==
  IF k \in DictKeys(m) THEN (CHOOSE e \in {m[i] : i \in 1..Len(m)} : e.k = k).v ELSE None

(* {**a, **b}: a's keys keep their place and take b's value on collision,
   then b's keys that a lacks, in b's order *)
DictMergeLeft(a, b) == a \o SelectSeq(b, LAMBDA e : e.k \notin DictKeys(a))

DictMerge(a, b) ==
  [i \in 1..Len(a) |-> IF a[i].k \in DictKeys(b) THEN [k |-> a[i].k, v |-> DictGet(b, a[i].k)] ELSE a[i]]
  \o SelectSeq(b, LAMBDA e : e.k \notin DictKeys(a))

(* Python ==: 2 == 2.0, and dicts compare without their order *)
RECURSIVE PyEq(_, _)
PyEq(x, y) ==
  IF IsNum(x) /\ IsNum(y) THEN x.v = y.v
  ELSE IF x.t # y.t THEN FALSE
  ELSE IF IsList(x) THEN
    /\ Len(x.v) = Len(y.v)
    /\ \A i \in 1..Len(x.v) : PyEq(x.v[i], y.v[i])
  ELSE IF IsDict(x) THEN
    /\ DictKeys(x.v) = DictKeys(y.v)
    /\ \A k \in DictKeys(x.v) : PyEq(DictGet(x.v, k), DictGet(y.v, k))
  ELSE x.v = y.v

(* str(x) and repr(x) *)
RECURSIVE PyRepr(_)
PyRepr(d) ==
  CASE d.t = "int" -> <<ToString(d.v)>>
    [] d.t = "float" -> <<ToString(d.v), ".0">>
    [] d.t = "str" -> <<"'">> \o d.v \o <<"'">>
    [] d.t = "none" -> <<"None">>
    [] d.t = "obj" -> <<"<object ", ToString(d.v), ">">>
    [] d.t = "list" ->
         <<"[">> \o Join([i \in 1..Len(d.v) |-> PyRepr(d.v[i])], <<", ">>) \o <<"]">>
    [] d.t = "dict" ->
         <<"{">> \o Join([i \in 1..Len(d.v) |-> <<"'", d.v[i].k, "'", ": ">> \o PyRepr(d.v[i].v)], <<", ">>) \o <<"}">>

PyStr(d) == IF IsStr(d) THEN d.v ELSE PyRepr(d)

(* sorted(keys) of a dict over the key alphabet of the model *)
KeyOrder ==
  <<"data", "error", "final", "hash", "influence", "input", "jutsu", "key", "meta",
    "model", "op", "p", "prev", "previous", "prompt", "q", "response", "results",
    "schema", "steps", "task", "text", "time", "txt", "version">>
SortedItems(m) ==
  LET ks == SelectSeq(KeyOrder, LAMBDA k : k \in DictKeys(m))
  IN [i \in 1..Len(ks) |-> [k |-> ks[i], v |-> DictGet(m, ks[i])]]

(* json.dumps(obj): raises TypeError on a value it cannot represent *)
RECURSIVE JsonSafe(_)
JsonSafe(d) ==
  CASE d.t = "obj" -> FALSE
    [] d.t = "list" -> \A i \in 1..Len(d.v) : JsonSafe(d.v[i])
    [] d.t = "dict" -> \A i \in 1..Len(d.v) : JsonSafe(d.v[i].v)
    [] OTHER -> TRUE

(* json.dumps(data, default=str, sort_keys=True) *)
RECURSIVE JsonDumps(_)
JsonDumps(d) ==
  CASE d.t = "int" -> <<ToString(d.v)>>
    [] d.t = "float" -> <<ToString(d.v), ".0">>
    [] d.t = "str" -> <<"\"">> \o d.v \o <<"\"">>
    [] d.t = "none" -> <<"null">>
    [] d.t = "obj" -> <<"\"">> \o PyStr(d) \o <<"\"">>
    [] d.t = "list" ->
         <<"[">> \o Join([i \in 1..Len(d.v) |-> JsonDumps(d.v[i])], <<", ">>) \o <<"]">>
    [] d.t = "dict" ->
         LET it == SortedItems(d.v)
         IN <<"{">> \o Join([i \in 1..Len(it) |-> <<"\"", it[i].k, "\"", ": ">> \o JsonDumps(it[i].v)], <<", ">>) \o <<"}">>

(* hashlib.sha256(text).hexdigest(): injective, one digest per text *)
Sha256(text) == <<"sha256">> \o text

(***************************************************************************)
(* Meta and Scroll.__init__                                                *)
(***************************************************************************)
NoRule == [kind |-> "none", a |-> 0, b |-> 0, n |-> 0]

(* id is the identity of the Meta object: 0 until an envelope holds it, then
   the number of the first envelope that holds it *)
Meta(schema, version, hash, time, prev, op, influence) ==
  [schema |-> schema, version |-> version, hash |-> hash, time |-> time,
   prev |-> prev, op |-> op, influence |-> influence, id |-> 0]

DefaultMeta(t) == Meta("dojo/scroll", 1, <<>>, t, <<>>, "", 0)

GenerateKey(data, t) ==
  <<"/", "scroll", "/", ToString(PyStr(data)), "_", ToString(t % TimeMod)>>

ComputeHash(key, data) == Sha256(key \o JsonDumps(data))

(* Scroll.read: the registered object (0 for None) *)
Read(reg, key) ==
  IF \E i \in 1..Len(reg) : reg[i].k = key
  THEN reg[CHOOSE i \in 1..Len(reg) : reg[i].k = key].ref
  ELSE 0

(* Scroll.list: the registered keys that start with prefix, in dict order *)
ScrollList(reg, prefix) ==
  LET hit == SelectSeq(reg, LAMBDA e : StartsWith(e.k, prefix))
  IN [i \in 1..Len(hit) |-> hit[i].k]

(* _registry.setdefault(key, ref): a registration that keeps the first
   envelope of a key, for comparison with Register *)
RegisterSkip(reg, key, ref) ==
  IF \E i \in 1..Len(reg) : reg[i].k = key THEN reg
  ELSE Append(reg, [k |-> key, ref |-> ref])

(* a registration that moves a key registered again to the end, for
   comparison with Register *)
RegisterLast(reg, key, ref) ==
  Append(SelectSeq(reg, LAMBDA e : e.k # key), [k |-> key, ref |-> ref])

(* Scroll._registry[key] = ref: a dict keeps a key's first place *)
Register(reg, key, ref) ==
  IF \E i \in 1..Len(reg) : reg[i].k = key
  THEN [i \in 1..Len(reg) |-> IF reg[i].k = key THEN [k |-> key, ref |-> ref] ELSE reg[i]]
  ELSE Append(reg, [k |-> key, ref |-> ref])

IsKeyArg(kd) == IsStr(kd) /\ Len(kd.v) > 0 /\ kd.v[1] = "/"

(* The world an operation runs in and returns: w.ref is the object built *)
World(h, r, t) == [heap |-> h, registry |-> r, now |-> t, st |-> "ok", ref |-> 0]

Raise(w, e) == [w EXCEPT !.st = e, !.ref = 0]

ScrollInit(w, key_or_data, data, meta) ==
  LET d == IF IsKeyArg(key_or_data) THEN data
           ELSE IF data = None THEN key_or_data ELSE data
      key == IF IsKeyArg(key_or_data) THEN key_or_data.v ELSE GenerateKey(d, w.now)
      id == Len(w.heap) + 1
      held == [meta EXCEPT !.id = IF @ = 0 THEN id ELSE @]
      m == IF held.hash = <<>> THEN [held EXCEPT !.hash = ComputeHash(key, d)] ELSE held
      obj == [key |-> key, data |-> d, meta |-> m, rule |-> NoRule]
  IN [w EXCEPT !.heap = Append(@, obj),
               !.registry = Register(@, key, id),
               !.st = "ok",
               !.ref = id]

(***************************************************************************)
(* Serialisation: Meta.to_dict / from_dict, Scroll.to_dict / from_dict.    *)
(* A wire dict is a function from the names present to their values.       *)
(***************************************************************************)
MetaToDictBare(m) == [n \in {"schema", "version", "hash", "time"} |-> m[n]]

MetaToDict(m) ==
  LET names == {"schema", "version", "hash", "time"}
               \cup (IF m.prev # <<>> THEN {"prev"} ELSE {})
               \cup (IF m.op # "" THEN {"op"} ELSE {})
               \cup (IF m.influence # 0 THEN {"influence"} ELSE {})
  IN [n \in names |-> m[n]]

WireGet(d, name, default) == IF name \in DOMAIN d THEN d[name] ELSE default

MetaFromDict(d, t) ==
  Meta(WireGet(d, "schema", "dojo/scroll"), WireGet(d, "version", 1),
       WireGet(d, "hash", <<>>), WireGet(d, "time", t), WireGet(d, "prev", <<>>),
       WireGet(d, "op", ""), WireGet(d, "influence", 0))

ToDict(e) ==
  [key |-> e.key,
   data |-> IF JsonSafe(e.data) THEN e.data ELSE VStr(PyStr(e.data)),
   meta |-> MetaToDict(e.meta)]

FromDict(w, d) == ScrollInit(w, VStr(d.key), d.data, MetaFromDict(d.meta, w.now))

(***************************************************************************)
(* The operators of Python on payloads: [st, val], st the exception raised *)
(***************************************************************************)
Ok(v) == [st |-> "ok", val |-> v]
Err(e) == [st |-> e, val |-> None]

NumOf(x, y, n) == IF IsInt(x) /\ IsInt(y) THEN VInt(n) ELSE VFloat(n)

RECURSIVE Repeat(_, _)
Repeat(s, n) == IF n <= 0 THEN <<>> ELSE s \o Repeat(s, n - 1)

RECURSIVE IntPow(_, _)
IntPow(b, n) == IF n <= 0 THEN 1 ELSE b * IntPow(b, n - 1)

(* x + y *)
PyAdd(x, y) ==
  IF IsNum(x) /\ IsNum(y) THEN Ok(NumOf(x, y, x.v + y.v))
  ELSE IF IsStr(x) /\ IsStr(y) THEN Ok(VStr(x.v \o y.v))
  ELSE IF IsList(x) /\ IsList(y) THEN Ok(VList(x.v \o y.v))
  ELSE Err("TypeError")

(* x * y: a str or list is repeated by an int on either side *)
PyMul(x, y) ==
  IF IsNum(x) /\ IsNum(y) THEN Ok(NumOf(x, y, x.v * y.v))
  ELSE IF (IsStr(x) \/ IsList(x)) /\ IsInt(y) THEN Ok([t |-> x.t, v |-> Repeat(x.v, y.v)])
  ELSE IF IsInt(x) /\ (IsStr(y) \/ IsList(y)) THEN Ok([t |-> y.t, v |-> Repeat(y.v, x.v)])
  ELSE Err("TypeError")

(* x ** n for a Python int n: an int power of an int stays an int for n >= 0
   and is a float for n < 0, where a zero base raises *)
Representable(x, n) == IF n >= 0 \/ ~IsNum(x) THEN TRUE ELSE x.v \in {-1, 0, 1}

PyPow(x, n) ==
  IF ~IsNum(x) THEN Err("TypeError")
  ELSE IF n >= 0 THEN Ok(NumOf(x, x, IntPow(x.v, n)))
  ELSE IF x.v = 0 THEN Err("ZeroDivisionError")
  ELSE Ok(VFloat(IntPow(x.v, 0 - n)))

(* -x *)
PyNeg(x) == IF IsNum(x) THEN Ok(NumOf(x, x, 0 - x.v)) ELSE Err("TypeError")

(***************************************************************************)
(* Computation graph operators                                             *)
(***************************************************************************)
Tick(w, dt) == [w EXCEPT !.now = @ + dt]

Rule(kind, a, b, n) == [kind |-> kind, a |-> a, b |-> b, n |-> n]

(* _child, then out._backward = _backward *)
Child(w, data, op, parents, rule) ==
  LET meta == Meta("dojo/computed", 1, <<>>, w.now,
                   [i \in 1..Len(parents) |-> w.heap[parents[i]].key], op, 0)
      w1 == ScrollInit(w, None, data, meta)
  IN [w1 EXCEPT !.heap[w1.ref].rule = rule]

(* other if isinstance(other, Scroll) else Scroll(other) *)
Wrap(w, raw) == ScrollInit(w, raw, None, DefaultMeta(w.now))

AddResultCoerce(x, y) ==
  IF IsDict(x) /\ IsDict(y) THEN Ok(VDict(DictMerge(x.v, y.v)))
  ELSE IF IsDict(x) THEN Ok(x)
  ELSE IF IsDict(y) THEN Ok(y)
  ELSE PyAdd(x, y)

AddResult(x, y) ==
  IF IsNum(x) /\ IsNum(y) THEN PyAdd(x, y)
  ELSE IF IsStr(x) /\ IsStr(y) THEN PyAdd(x, y)
  ELSE IF IsList(x) /\ IsList(y) THEN PyAdd(x, y)
  ELSE IF IsDict(x) /\ IsDict(y) THEN Ok(VDict(DictMerge(x.v, y.v)))
  ELSE PyAdd(x, y)

ScrollAdd(w, i, j) ==
  LET r == AddResult(w.heap[i].data, w.heap[j].data)
  IN IF r.st # "ok" THEN Raise(w, r.st)
     ELSE Child(w, r.val, "+", <<i, j>>, Rule("add", i, j, 0))

MulResult(x, y) ==
  IF IsNum(x) /\ IsNum(y) THEN PyMul(x, y)
  ELSE IF IsStr(x) /\ IsInt(y) THEN PyMul(x, y)
  ELSE IF IsList(x) /\ IsInt(y) THEN PyMul(x, y)
  ELSE PyMul(x, y)

ScrollMul(w, i, j) ==
  LET r == MulResult(w.heap[i].data, w.heap[j].data)
  IN IF r.st # "ok" THEN Raise(w, r.st)
     ELSE Child(w, r.val, "*", <<i, j>>, Rule("mul", i, j, 0))

ScrollPow(w, i, n) ==
  LET r == PyPow(w.heap[i].data, n)
  IN IF r.st # "ok" THEN Raise(w, r.st)
     ELSE Child(w, r.val, "**" \o ToString(n), <<i>>, Rule("pow", i, 0, n))

(* self * -1: the raw -1 is wrapped first; dt is the clock's advance between
   two constructions of one call *)
ScrollNeg(w, i, dt) ==
  LET w1 == Wrap(w, VInt(-1))
  IN ScrollMul(Tick(w1, dt), i, w1.ref)

(* self + (-other) for a Scroll other *)
ScrollSub(w, i, j, dt, dt2) ==
  LET w1 == ScrollNeg(w, j, dt)
  IN IF w1.st # "ok" THEN w1 ELSE ScrollAdd(Tick(w1, dt2), i, w1.ref)

(* self * (other ** -1) for a Scroll other *)
ScrollDiv(w, i, j, dt) ==
  LET w1 == ScrollPow(w, j, -1)
  IN IF w1.st # "ok" THEN w1 ELSE ScrollMul(Tick(w1, dt), i, w1.ref)

(***************************************************************************)
(* Functional operators.  A function argument is one of a few named        *)
(* functions: the predicates "pos" (x > 0) and "any" (True), the folds     *)
(* "add" (acc + x) and "inc" (acc + x + 1).                                *)
(***************************************************************************)
(* bool(x) *)
PyTruthy(d) ==
  CASE d.t = "none" -> FALSE
    [] d.t \in {"int", "float"} -> d.v # 0
    [] d.t \in {"str", "list", "dict"} -> d.v # <<>>
    [] OTHER -> TRUE

(* hasattr(self.data, '__iter__') and not isinstance(self.data, (str, dict)) *)
IsIterable(d) == IsList(d)

(* the call returns self: nothing is built *)
Self(w, i) == [w EXCEPT !.st = "ok", !.ref = i]

(* predicate(x): "pos" compares x with 0, a TypeError unless x is a number *)
ApplyPred(p, x) == IF p = "pos" THEN (IF IsNum(x) THEN x.v > 0 ELSE FALSE) ELSE TRUE

PredRaises(p, s) == p = "pos" /\ \E k \in 1..Len(s) : ~IsNum(s[k])

Kept(p, s) == VList(SelectSeq(s, LAMBDA x : ApplyPred(p, x)))

(* a filter that builds a child for every data, as relu does *)
ScrollFilterCopy(w, i, p) ==
  LET d == w.heap[i].data
  IN IF IsIterable(d) /\ PredRaises(p, d.v) THEN Raise(w, "TypeError")
     ELSE Child(w, IF IsIterable(d) THEN Kept(p, d.v) ELSE d, "filter", <<i>>, NoRule)

ScrollFilter(w, i, p) ==
  LET d == w.heap[i].data
  IN IF ~IsIterable(d) THEN Self(w, i)
     ELSE IF PredRaises(p, d.v) THEN Raise(w, "TypeError")
     ELSE Child(w, Kept(p, d.v), "filter", <<i>>, NoRule)

ApplyFn(f, acc, x) ==
  LET r == PyAdd(acc, x)
  IN IF f = "add" \/ r.st # "ok" THEN r ELSE PyAdd(r.val, VInt(1))

(* the left fold of fn over s[k..] from acc *)
RECURSIVE Fold(_, _, _, _)
Fold(f, acc, s, k) ==
  IF k > Len(s) THEN Ok(acc)
  ELSE LET r == ApplyFn(f, acc, s[k])
       IN IF r.st # "ok" THEN r ELSE Fold(f, r.val, s, k + 1)

(* functools.reduce(fn, s, initial) and functools.reduce(fn, s) *)
FunctoolsReduce(f, s, initial, given) ==
  IF given THEN Fold(f, initial, s, 1)
  ELSE IF s = <<>> THEN Err("TypeError")
  ELSE Fold(f, s[1], s, 2)

ScrollReduce(w, i, f, initial) ==
  LET d == w.heap[i].data
      r == FunctoolsReduce(f, d.v, initial, PyTruthy(initial))
  IN IF ~IsIterable(d) THEN Self(w, i)
     ELSE IF r.st # "ok" THEN Raise(w, r.st)
     ELSE Child(w, r.val, "reduce", <<i>>, NoRule)

(* a dict of the model has one-token text keys *)
KeyName(key) == IF IsStr(key) /\ Len(key.v) = 1 THEN key.v[1] ELSE ""

(* s[k] for a Python int k: a negative k counts from the end *)
PyIndex(s, k) ==
  IF k >= 0 /\ k < Len(s) THEN Ok(s[k + 1])
  ELSE IF k < 0 /\ 0 - k <= Len(s) THEN Ok(s[Len(s) + k + 1])
  ELSE Err("IndexError")

(* f'{key}' as one text *)
RECURSIVE Cat(_)
Cat(ss) == IF ss = <<>> THEN "" ELSE ss[1] \o Cat(Tail(ss))

ScrollGet(w, i, key) ==
  LET d == w.heap[i].data
      name == "." \o Cat(PyStr(key))
  IN IF IsDict(d) THEN Child(w, DictGet(d.v, KeyName(key)), name, <<i>>, NoRule)
     ELSE IF IsList(d) /\ IsInt(key) THEN
       LET r == IF key.v < Len(d.v) THEN PyIndex(d.v, key.v) ELSE Ok(None)
       IN IF r.st # "ok" THEN Raise(w, r.st)
          ELSE Child(w, r.val, "[" \o Cat(PyStr(key)) \o "]", <<i>>, NoRule)
     ELSE Child(w, None, name, <<i>>, NoRule)

(* max(0, x): the int 0 unless x is greater *)
ScrollRelu(w, i) ==
  LET d == w.heap[i].data
  IN Child(w, IF IsNum(d) THEN (IF d.v > 0 THEN d ELSE VInt(0)) ELSE d,
           "relu", <<i>>, Rule("relu", i, 0, 0))

(* math.tanh(x) is exact at 0 only: tanh(0) = 0.0 *)
TanhExact(x) == IF IsNum(x) THEN x.v = 0 ELSE TRUE

ScrollTanh(w, i) ==
  LET d == w.heap[i].data
  IN IF IsNum(d) THEN Child(w, VFloat(0), "tanh", <<i>>, Rule("tanh", i, 0, 0))
     ELSE Self(w, i)

(***************************************************************************)
(* Backward pass                                                           *)
(***************************************************************************)
(* build_topo: st = [visited: keys seen, topo: objects in post-order] *)
RECURSIVE BuildTopo(_, _, _, _), BuildPrev(_, _, _, _, _), BuildTopoByOperand(_, _, _, _)
(* a build_topo that descends into the operands the rule refers to, not into
   what the parent keys resolve to, for comparison with BuildTopo *)
BuildTopoByOperand(h, reg, s, st) ==
  IF h[s].key \in st.visited THEN st
  ELSE LET st1 == [st EXCEPT !.visited = @ \cup {h[s].key}]
           r == h[s].rule
           st2 == IF r.a = 0 THEN st1 ELSE BuildTopoByOperand(h, reg, r.a, st1)
           st3 == IF r.b = 0 THEN st2 ELSE BuildTopoByOperand(h, reg, r.b, st2)
       IN [st3 EXCEPT !.topo = Append(@, s)]

(* a build_topo that appends a node again each time it is reached, for
   comparison with BuildTopo *)
BuildTopoRevisit(h, reg, s, st) ==
  IF h[s].key \in st.visited THEN [st EXCEPT !.topo = Append(@, s)]
  ELSE LET st1 == [st EXCEPT !.visited = @ \cup {h[s].key}]
           st2 == BuildPrev(h, reg, h[s].meta.prev, 1, st1)
       IN [st2 EXCEPT !.topo = Append(@, s)]

BuildTopo(h, reg, s, st) ==
  IF h[s].key \in st.visited THEN st
  ELSE LET st1 == [st EXCEPT !.visited = @ \cup {h[s].key}]
           st2 == BuildPrev(h, reg, h[s].meta.prev, 1, st1)
       IN [st2 EXCEPT !.topo = Append(@, s)]

BuildPrev(h, reg, prev, k, st) ==
  IF k > Len(prev) THEN st
  ELSE LET p == Read(reg, prev[k])
       IN BuildPrev(h, reg, prev, k + 1, IF p # 0 THEN BuildTopo(h, reg, p, st) ELSE st)

TopoOf(h, reg, s) == BuildTopo(h, reg, s, [visited |-> {}, topo |-> <<>>]).topo

(* n * (self.data ** (n - 1)) in __pow__._backward *)
PowCoef(x, n) ==
  LET r == PyPow(x, n - 1)
  IN IF r.st # "ok" THEN r ELSE Ok(VFloat(n * r.val.v))

(* an assignment to x.meta.influence: every envelope that holds the same
   Meta object shows it *)
WithInfluence(h, i, x) ==
  [j \in 1..Len(h) |->
     IF h[j].meta.id = h[i].meta.id THEN [h[j] EXCEPT !.meta.influence = x] ELSE h[j]]

(* x.meta.influence += v; SetInfluence is the rule that overwrites instead *)
SetInfluence(h, i, x) == WithInfluence(h, i, x)

AddInfluence(h, i, x) == WithInfluence(h, i, h[i].meta.influence + x)

(* out._backward() for the object out: [st, heap] *)
RunRule(h, out) ==
  LET r == h[out].rule
      g == h[out].meta.influence
  IN CASE r.kind = "add" ->
            [st |-> "ok",
             heap |-> IF IsNum(h[r.a].data)
                      THEN AddInfluence(AddInfluence(h, r.a, g), r.b, g)
                      ELSE h]
       [] r.kind = "mul" ->
            [st |-> "ok",
             heap |-> IF IsNum(h[r.a].data) /\ IsNum(h[r.b].data)
                      THEN LET h1 == AddInfluence(h, r.a, h[r.b].data.v * g)
                           IN AddInfluence(h1, r.b, h[r.a].data.v * g)
                      ELSE h]
       [] r.kind = "pow" ->
            LET c == PowCoef(h[r.a].data, r.n)
            IN IF c.st # "ok" THEN [st |-> c.st, heap |-> h]
               ELSE [st |-> "ok", heap |-> AddInfluence(h, r.a, c.val.v * g)]
       [] r.kind = "relu" ->
            [st |-> "ok",
             heap |-> IF IsNum(h[out].data)
                      THEN AddInfluence(h, r.a, (IF h[out].data.v > 0 THEN 1 ELSE 0) * g)
                      ELSE h]
       [] r.kind = "tanh" ->
            [st |-> "ok",
             heap |-> AddInfluence(h, r.a, (1 - h[out].data.v * h[out].data.v) * g)]
       [] OTHER -> [st |-> "ok", heap |-> h]

(* for scroll in reversed(topo): scroll._backward(); k counts down, ran is
   the objects whose rule was invoked, in order *)
RECURSIVE RunRules(_, _, _)
RunRules(h, topo, k) ==
  IF k = 0 THEN [st |-> "ok", heap |-> h, ran |-> <<>>]
  ELSE LET r == RunRule(h, topo[k])
       IN IF r.st # "ok" THEN [st |-> r.st, heap |-> r.heap, ran |-> <<topo[k]>>]
          ELSE LET rest == RunRules(r.heap, topo, k - 1)
               IN [rest EXCEPT !.ran = <<topo[k]>> \o @]

(* a seed that first sets every influence back to 0, for comparison with
   Seed *)
SeedFresh(h, s) ==
  [j \in 1..Len(h) |-> [h[j] EXCEPT !.meta.influence = IF j = s THEN 1 ELSE 0]]

Seed(h, s) == WithInfluence(h, s, 1)

(* a backward pass that resolves a parent with _registry[key], which raises
   KeyError on an absent key, for comparison with ScrollBackward *)
ScrollBackwardStrict(w, s) ==
  LET topo == TopoOf(w.heap, w.registry, s)
      r == RunRules(Seed(w.heap, s), topo, Len(topo))
      missing == \E k \in 1..Len(topo) : \E p \in 1..Len(w.heap[topo[k]].meta.prev) :
                   Read(w.registry, w.heap[topo[k]].meta.prev[p]) = 0
  IN IF missing THEN Raise(w, "KeyError")
     ELSE [w EXCEPT !.heap = r.heap, !.st = r.st, !.ref = 0]

ScrollBackward(w, s) ==
  LET topo == TopoOf(w.heap, w.registry, s)
      r == RunRules(Seed(w.heap, s), topo, Len(topo))
  IN [w EXCEPT !.heap = r.heap, !.st = r.st, !.ref = 0]

(***************************************************************************)
(* Lineage                                                                 *)
(***************************************************************************)
Descriptor(e) ==
  [key |-> e.key, op |-> e.meta.op,
   data |-> SubSeq(PyStr(e.data), 1, Min(PreviewLen, Len(PyStr(e.data)))),
   influence |-> e.meta.influence]

RECURSIVE Trace(_, _, _, _, _), TracePrev(_, _, _, _, _, _)
Trace(h, reg, s, d, hist) ==
  IF d <= 0 \/ s = 0 THEN hist
  ELSE TracePrev(h, reg, h[s].meta.prev, 1, d, Append(hist, Descriptor(h[s])))

TracePrev(h, reg, prev, k, d, hist) ==
  IF k > Len(prev) THEN hist
  ELSE TracePrev(h, reg, prev, k + 1, d, Trace(h, reg, Read(reg, prev[k]), d - 1, hist))

(* a lineage that also reports what lies depth hops away, for comparison
   with ScrollLineage *)
ScrollLineageDeep(w, s, depth) == Trace(w.heap, w.registry, s, depth + 1, <<>>)

ScrollLineage(w, s, depth) == Trace(w.heap, w.registry, s, depth, <<>>)

(***************************************************************************)
(* The state machine: one action per call of the interface                 *)
(***************************************************************************)
W == World(heap, registry, now)

Objs == 1..Len(heap)

NoCall ==
  [op |-> "", args |-> <<>>, st |-> "ok", ref |-> 0, topo |-> <<>>, trace |-> <<>>,
   ran |-> <<>>, keys |-> <<>>]

Call(op, args, w) == [NoCall EXCEPT !.op = op, !.args = args, !.st = w.st, !.ref = w.ref]

Commit(r, w) ==
  /\ calls < budget
  /\ Len(w.heap) <= MaxObjs
  /\ w.now <= MaxTime
  /\ heap' = w.heap
  /\ registry' = w.registry
  /\ now' = w.now
  /\ ret' = r
  /\ calls' = calls + 1
  /\ UNCHANGED <<clearedAt, budget, pool>>

(* a Hokage after construction: no clone made, no jutsu performed, no
   mission run, no call in progress *)
NoPool ==
  [op |-> "", phase |-> "idle", ninja |-> "", jutsu |-> "", tasks |-> <<>>,
   clones |-> <<>>, fut |-> <<>>, taken |-> <<>>, results |-> <<>>, base |-> 0,
   clone_count |-> [n \in {"parser", "writer"} |-> 0],
   jutsu_count |-> [n \in {"parser", "writer"} |-> 0],
   mission_count |-> 0, steps |-> <<>>, context |-> <<>>, received |-> <<>>]

Start(n) ==
  /\ pool = NoPool
  /\ heap = <<>>
  /\ registry = <<>>
  /\ now = 0
  /\ ret = NoCall
  /\ clearedAt = 0
  /\ calls = 0
  /\ budget = n

(* Scroll(key, data, meta), Scroll(data=data, meta=meta) *)
NewScroll(kd, d, h) ==
  LET w == ScrollInit(W, kd, d, [DefaultMeta(now) EXCEPT !.hash = h])
  IN Commit(Call("new", <<>>, w), w)

(* Scroll.from_dict(e.to_dict()) *)
FromWire(i) ==
  LET w == FromDict(W, ToDict(heap[i]))
  IN Commit(Call("from_dict", <<i>>, w), w)

Add(i, j) ==
  LET w == ScrollAdd(W, i, j) IN Commit(Call("add", <<i, j>>, w), w)

Mul(i, j) ==
  LET w == ScrollMul(W, i, j) IN Commit(Call("mul", <<i, j>>, w), w)

Pow(i, n) ==
  /\ Representable(heap[i].data, n)
  /\ LET w == ScrollPow(W, i, n) IN Commit(Call("pow", <<i, n>>, w), w)

Neg(i, dt) ==
  LET w == ScrollNeg(W, i, dt) IN Commit(Call("neg", <<i>>, w), w)

Sub(i, j, dt, dt2) ==
  LET w == ScrollSub(W, i, j, dt, dt2) IN Commit(Call("sub", <<i, j>>, w), w)

Div(i, j, dt) ==
  /\ Representable(heap[j].data, -1)
  /\ LET w == ScrollDiv(W, i, j, dt) IN Commit(Call("div", <<i, j>>, w), w)

Backward(i) ==
  LET w == ScrollBackward(W, i)
      topo == TopoOf(heap, registry, i)
  IN Commit([Call("backward", <<i>>, w) EXCEPT
               !.topo = topo,
               !.ran = RunRules(Seed(heap, i), topo, Len(topo)).ran], w)

Lineage(i, depth) ==
  Commit([Call("lineage", <<i, depth>>, W) EXCEPT !.trace = ScrollLineage(W, i, depth)], W)

ClearKeeps ==
  /\ calls < budget
  /\ clearedAt' = Len(heap)
  /\ ret' = [NoCall EXCEPT !.op = "clear"]
  /\ calls' = calls + 1
  /\ UNCHANGED <<heap, registry, now, budget, pool>>

(* Scroll.clear() *)
Clear ==
  /\ calls < budget
  /\ registry' = <<>>
  /\ clearedAt' = Len(heap)
  /\ ret' = [NoCall EXCEPT !.op = "clear"]
  /\ calls' = calls + 1
  /\ UNCHANGED <<heap, now, budget, pool>>

(* a millisecond passes between two calls *)
ClockTick ==
  /\ now < MaxTime
  /\ now' = now + 1
  /\ UNCHANGED <<heap, registry, ret, clearedAt, calls, budget, pool>>

(* inputs *)
KeyA == VStr(<<"/", "a">>)
KeyB == VStr(<<"/", "b">>)
Hashes == {<<>>, <<"feed">>}
Nums == {VInt(n) : n \in 1..MaxNum}
DictP == VDict(<<[k |-> "p", v |-> VInt(1)]>>)
DictQP == VDict(<<[k |-> "q", v |-> VInt(2)], [k |-> "p", v |-> VInt(2)]>>)
Payloads == Nums \cup {VStr(<<"a">>), VList(<<VInt(1)>>), DictP, DictQP, None, VObj(1)}
PowExps == {-1, 2}

(***************************************************************************)
(* Spec: the namespace.  Envelopes are built in every way the interface    *)
(* allows, keys are reused, the registry is cleared.                       *)
(***************************************************************************)
Init == Start(NamespaceCalls)

Next ==
  \/ \E kd \in {KeyA, None}, d \in {VInt(1), VStr(<<"a">>), VObj(1), None}, h \in Hashes :
       NewScroll(kd, d, h)
  \/ \E i \in Objs : FromWire(i)
  \/ \E i, j \in Objs : Add(i, j)
  \/ Clear
  \/ ClockTick

Spec == Init /\ [][Next]_vars

(***************************************************************************)
(* SpecWire: envelopes, leaf and computed, sent through the wire format    *)
(***************************************************************************)
InitWire == Start(WireCalls)

NextWire ==
  \/ \E d \in {VInt(2), VObj(1), DictP} : NewScroll(KeyA, d, <<>>)
  \/ \E i, j \in Objs : Add(i, j)
  \/ \E i \in Objs : Backward(i)
  \/ \E i \in Objs : FromWire(i)
  \/ ClockTick

SpecWire == InitWire /\ [][NextWire]_vars

(***************************************************************************)
(* SpecBack: numeric graphs, shadowed and cleared, then traversed          *)
(***************************************************************************)
InitBack == Start(BackwardCalls)

NextBack ==
  \/ \E kd \in {KeyA, None}, d \in Nums : NewScroll(kd, d, <<>>)
  \/ \E i, j \in Objs : Add(i, j)
  \/ \E i \in Objs, n \in PowExps : Pow(i, n)
  \/ \E i \in Objs : Backward(i)
  \/ \E i \in Objs, depth \in 0..MaxDepth : Lineage(i, depth)
  \/ Clear
  \/ ClockTick

SpecBack == InitBack /\ [][NextBack]_vars

(***************************************************************************)
(* SpecTypes: two leaves of any type, then one operator                    *)
(***************************************************************************)
InitTypes == Start(TypeCalls)

NextTypes ==
  \/ \E d \in Payloads : Len(heap) < 2 /\ NewScroll(None, d, <<>>)
  \/ \E i, j \in Objs : Add(i, j)
  \/ \E i, j \in Objs : Mul(i, j)
  \/ \E i \in Objs, n \in PowExps : Pow(i, n)
  \/ \E i \in Objs, dt \in 0..1 : Neg(i, dt)
  \/ \E i, j \in Objs, dt, dt2 \in 0..1 : Sub(i, j, dt, dt2)
  \/ \E i, j \in Objs, dt \in 0..1 : Div(i, j, dt)
  \/ ClockTick

SpecTypes == InitTypes /\ [][NextTypes]_vars

(***************************************************************************)
(* SpecExpr: the script of demo(), for any two numeric leaves              *)
(*   a = Scroll(..); b = Scroll(..); t1 = a * b or a + b;                  *)
(*   t2 = a ** 2 or a + b; c = t1 + t2; c.backward()                       *)
(* with the clock free to advance between any two calls.  The objects are  *)
(* a = 1, b = 2, t1 = 3, t2 = 4, c = 5.                                    *)
(***************************************************************************)
ExprNums == {VInt(n) : n \in -1..ExprMax}

InitExpr == Start(6)

ExprLeaf ==
  /\ calls < 2
  /\ \E kd \in {KeyA, KeyB, None}, d \in ExprNums : NewScroll(kd, d, <<>>)

ExprFirst == calls = 2 /\ (Mul(1, 2) \/ Add(1, 2))

ExprSecond == calls = 3 /\ (Pow(1, 2) \/ Add(1, 2))

ExprSum == calls = 4 /\ Add(3, 4)

ExprBackward == calls = 5 /\ Backward(5)

NextExpr == ExprLeaf \/ ExprFirst \/ ExprSecond \/ ExprSum \/ ExprBackward \/ ClockTick

SpecExpr == InitExpr /\ [][NextExpr]_vars

ExprDone == calls = 6 /\ ret.op = "backward"

Infl(i) == heap[i].meta.influence
Val(i) == heap[i].data.v

KeysDiffer(S) == \A i, j \in S : i # j => heap[i].key # heap[j].key

(* C1: for fresh leaves a and b with distinct keys and no key collision among
   the derived envelopes, after c = a * b + a ** 2 and c.backward():
   c.data = a*b + a^2, a.influence = b.data + 2*a.data, b.influence = a.data *)
C1_BackwardOfProductPlusSquare ==
  (/\ ExprDone
   /\ heap[3].meta.op = "*" /\ heap[4].meta.op = "**2"
   /\ KeysDiffer({1, 2}) /\ KeysDiffer({3, 4, 5}))
  => /\ Val(5) = Val(1) * Val(2) + Val(1) * Val(1)
     /\ Infl(1) = Val(2) + 2 * Val(1)
     /\ Infl(2) = Val(1)
     /\ Infl(5) = 1

C1_Witness ==
  /\ ExprDone
  /\ heap[3].meta.op = "*" /\ heap[4].meta.op = "**2"
  /\ KeysDiffer({1, 2}) /\ KeysDiffer({3, 4, 5})
  /\ Val(1) = 2 /\ Val(2) = 3
  /\ Val(5) = 10 /\ Infl(1) = 7 /\ Infl(2) = 2

(* what one path through an intermediate contributes to a's influence: the
   derivative of the intermediate in a *)
PathContribution(t) ==
  CASE heap[t].meta.op = "*" -> Val(2)
    [] heap[t].meta.op = "+" -> 1
    [] heap[t].meta.op = "**2" -> 2 * Val(1)

Occurrences(seq, x) == Cardinality({k \in 1..Len(seq) : seq[k] = x})

(* C2: a is an operand of the two intermediates t1 and t2, both combined into
   c: after c.backward(), a.influence is the sum of both paths' contributions
   and the rule of each intermediate ran exactly once *)
C2_DiamondSumsBothPaths ==
  ExprDone =>
    /\ Infl(1) = PathContribution(3) + PathContribution(4)
    /\ Occurrences(ret.topo, 3) = 1
    /\ Occurrences(ret.topo, 4) = 1

(***************************************************************************)
(* Properties of the namespace (Spec)                                      *)
(***************************************************************************)
Built == ret.op \in {"new", "from_dict", "add"} /\ ret.st = "ok"

(* C3: every construction (explicit key, generated key, operator child,
   from_dict) registers the envelope before it returns: Scroll.read of its key
   returns that very envelope *)
C3_RegisteredOnConstruction ==
  Built => ret.ref \in Objs /\ Read(registry, heap[ret.ref].key) = ret.ref

C3_Witness ==
  /\ ret.op = "add" /\ ret.st = "ok"
  /\ \E i \in Objs : i < ret.ref /\ i > clearedAt /\ heap[i].key = heap[ret.ref].key
  /\ Read(registry, heap[ret.ref].key) = ret.ref

Since(k) == {i \in (clearedAt + 1)..Len(heap) : heap[i].key = k}
Latest(S) == CHOOSE x \in S : \A y \in S : y <= x
KeysBuilt == {heap[i].key : i \in Objs}

(* C4: for every key the registry holds at most one envelope, the one built
   last under that key since the last clear(); a second construction under a
   key replaces the first without an error *)
C4_LastWriteWins ==
  /\ \A i, j \in 1..Len(registry) : registry[i].k = registry[j].k => i = j
  /\ \A i \in 1..Len(registry) : registry[i].k \in KeysBuilt
  /\ \A k \in KeysBuilt :
       Read(registry, k) = IF Since(k) = {} THEN 0 ELSE Latest(Since(k))
  /\ ret.op = "new" => ret.st = "ok"

C4_Witness ==
  /\ ret.op = "new"
  /\ IsKeyArg(VStr(heap[ret.ref].key))
  /\ Cardinality(Since(heap[ret.ref].key)) = 2
  /\ \E i \in Since(heap[ret.ref].key) : ~PyEq(heap[i].data, heap[ret.ref].data)
  /\ Read(registry, heap[ret.ref].key) = ret.ref

(* C5: meta.hash is the content identity: two envelopes, however built, have
   equal hashes exactly when their keys and their data are equal, and no hash
   is empty *)
C5_HashIsContentIdentity ==
  /\ \A i, j \in Objs :
       (heap[i].meta.hash = heap[j].meta.hash)
         <=> (heap[i].key = heap[j].key /\ PyEq(heap[i].data, heap[j].data))
  /\ \A i \in Objs : heap[i].meta.hash # <<>>

(***************************************************************************)
(* Properties of the wire format (SpecWire)                                *)
(***************************************************************************)
SameMeta(e, f) ==
  /\ f.meta.schema = e.meta.schema
  /\ f.meta.version = e.meta.version
  /\ f.meta.hash = e.meta.hash
  /\ f.meta.time = e.meta.time
  /\ f.meta.prev = e.meta.prev
  /\ f.meta.op = e.meta.op
  /\ f.meta.influence = e.meta.influence

(* C6 as claimed: from_dict(e.to_dict()) has e's key, data and metadata for
   every envelope e, also when e.data is not representable in JSON *)
C6_RoundTripAnyData ==
  ret.op = "from_dict" =>
    LET e == heap[ret.args[1]]
        f == heap[ret.ref]
    IN f.key = e.key /\ f.data = e.data /\ SameMeta(e, f)

(* C6 amended: from_dict(e.to_dict()) has e's key and metadata; it has e's data
   when the data is representable in JSON, and str(e.data) when it is not *)
C6_RoundTrip ==
  ret.op = "from_dict" =>
    LET e == heap[ret.args[1]]
        f == heap[ret.ref]
    IN /\ f.key = e.key
       /\ SameMeta(e, f)
       /\ f.data = IF JsonSafe(e.data) THEN e.data ELSE VStr(PyStr(e.data))

C6_Witness ==
  /\ ret.op = "from_dict"
  /\ heap[ret.args[1]].meta.prev # <<>>
  /\ heap[ret.args[1]].meta.op = "+"
  /\ heap[ret.args[1]].meta.influence # 0
  /\ now > heap[ret.args[1]].meta.time
  /\ heap[ret.ref].meta.influence = heap[ret.args[1]].meta.influence

(***************************************************************************)
(* Properties of traversal (SpecBack)                                      *)
(***************************************************************************)
Absent(k) == Read(registry, k) = 0
Parents(i) == {heap[i].meta.prev[k] : k \in 1..Len(heap[i].meta.prev)}
HasAbsentParent(i) == \E k \in Parents(i) : Absent(k)

(* C7: backward() and lineage() on an envelope with parent keys that the
   registry no longer holds complete without raising; an absent key is
   skipped: it is neither in the order list nor in the trace, and with every
   parent absent only the envelope itself is *)
C7_UnresolvedParentIsNoError ==
  /\ (ret.op = "backward" /\ HasAbsentParent(ret.args[1])) =>
       /\ ret.st = "ok"
       /\ \A k \in 1..Len(ret.topo) :
            ret.topo[k] = ret.args[1] \/ ~Absent(heap[ret.topo[k]].key)
       /\ (\A p \in Parents(ret.args[1]) : Absent(p)) => ret.topo = <<ret.args[1]>>
  /\ (ret.op = "lineage" /\ HasAbsentParent(ret.args[1])) =>
       /\ ret.st = "ok"
       /\ \A k \in 2..Len(ret.trace) : ~Absent(ret.trace[k].key)
       /\ (\A p \in Parents(ret.args[1]) : Absent(p)) => Len(ret.trace) <= 1

C7_Witness ==
  /\ ret.op = "backward"
  /\ clearedAt > 0
  /\ HasAbsentParent(ret.args[1])
  /\ ret.st = "ok"
  /\ ret.topo = <<ret.args[1]>>

(***************************************************************************)
(* Properties of type dispatch (SpecTypes)                                 *)
(***************************************************************************)
Arg(k) == heap[ret.args[k]].data
Out == IF ret.ref \in Objs THEN heap[ret.ref].data ELSE None

(* C8: + follows the type table: the sum of two numbers; the left text then
   the right text; the left elements then the right elements, duplicates
   kept; the union of two mappings, the right value winning on a shared key *)
C8_CombineTypeTable ==
  ret.op = "add" =>
    /\ (IsNum(Arg(1)) /\ IsNum(Arg(2))) =>
         ret.st = "ok" /\ IsNum(Out) /\ Out.v = Arg(1).v + Arg(2).v
    /\ (IsStr(Arg(1)) /\ IsStr(Arg(2))) =>
         ret.st = "ok" /\ Out = VStr(Arg(1).v \o Arg(2).v)
    /\ (IsList(Arg(1)) /\ IsList(Arg(2))) =>
         /\ ret.st = "ok" /\ IsList(Out)
         /\ Len(Out.v) = Len(Arg(1).v) + Len(Arg(2).v)
         /\ \A k \in 1..Len(Arg(1).v) : Out.v[k] = Arg(1).v[k]
         /\ \A k \in 1..Len(Arg(2).v) : Out.v[Len(Arg(1).v) + k] = Arg(2).v[k]
    /\ (IsDict(Arg(1)) /\ IsDict(Arg(2))) =>
         /\ ret.st = "ok" /\ IsDict(Out)
         /\ DictKeys(Out.v) = DictKeys(Arg(1).v) \cup DictKeys(Arg(2).v)
         /\ Len(Out.v) = Cardinality(DictKeys(Out.v))
         /\ \A k \in DictKeys(Out.v) :
              DictGet(Out.v, k) = IF k \in DictKeys(Arg(2).v)
                                  THEN DictGet(Arg(2).v, k) ELSE DictGet(Arg(1).v, k)

C8_Witness ==
  /\ ret.op = "add" /\ ret.st = "ok"
  /\ Arg(1) = DictP /\ Arg(2) = DictQP
  /\ DictGet(Out.v, "p") = VInt(2)
  /\ DictGet(Out.v, "q") = VInt(2)

NumWithMapping(i, j) ==
  \/ IsNum(heap[i].data) /\ IsDict(heap[j].data)
  \/ IsDict(heap[i].data) /\ IsNum(heap[j].data)

(* C9: + of a numeric envelope and a mapping envelope, in either order, raises
   a type error: nothing is returned, no envelope is built, the registry is
   as it was *)
C9_NumericWithMappingRejected ==
  [][(ret'.op = "add" /\ calls' = calls + 1 /\ NumWithMapping(ret'.args[1], ret'.args[2]))
       => (ret'.st = "TypeError" /\ ret'.ref = 0 /\ heap' = heap /\ registry' = registry)]_vars

C9_Witness ==
  /\ ret.op = "add"
  /\ ret.st = "TypeError"
  /\ IsDict(Arg(1)) /\ IsNum(Arg(2))

NonNumeric(d) == d.t \in {"str", "list", "dict"}
Operands == IF ret.op \in {"pow", "neg"} THEN {ret.args[1]} ELSE {ret.args[1], ret.args[2]}

(* C10: power, negation, subtraction and division of an envelope whose data
   is text, a sequence or a mapping raise a type error and return nothing *)
C10_NumericOnlyOperators ==
  (ret.op \in {"pow", "neg", "sub", "div"} /\ \E i \in Operands : NonNumeric(heap[i].data))
    => ret.st = "TypeError" /\ ret.ref = 0

(***************************************************************************)
(* SpecFlow: leaves built from data alone, then the functional operators   *)
(* and the activations                                                     *)
(***************************************************************************)
(* Scroll(x): one positional argument *)
NewData(x) ==
  LET w == ScrollInit(W, x, None, DefaultMeta(now))
  IN Commit(Call("scroll", <<x>>, w), w)

Filter(i, p) ==
  LET w == ScrollFilter(W, i, p) IN Commit(Call("filter", <<i, p>>, w), w)

Reduce(i, f, initial) ==
  LET w == ScrollReduce(W, i, f, initial)
  IN Commit(Call("reduce", <<i, f, initial>>, w), w)

Get(i, key) ==
  LET w == ScrollGet(W, i, key) IN Commit(Call("get", <<i, key>>, w), w)

Relu(i) ==
  LET w == ScrollRelu(W, i) IN Commit(Call("relu", <<i>>, w), w)

Tanh(i) ==
  /\ TanhExact(heap[i].data)
  /\ LET w == ScrollTanh(W, i) IN Commit(Call("tanh", <<i>>, w), w)

ListN == VList(<<VInt(-1), VInt(2), VInt(0), VInt(2)>>)
ListS == VList(<<VStr(<<"a">>), VStr(<<"b">>)>>)
FlowPayloads ==
  {VInt(0), VInt(-1), VInt(2), VStr(<<"a">>), VStr(<<"/", "a">>), VList(<<>>), ListN, ListS,
   DictP, None}
Preds == {"pos", "any"}
Fns == {"add", "inc"}
Initials == {None, VInt(0), VInt(1), VStr(<<>>), VList(<<>>)}
GetKeys == {VStr(<<"p">>), VStr(<<"z">>), VInt(-5), VInt(-1), VInt(0), VInt(1), VInt(4)}

InitFlow == Start(FlowCalls)

NextFlow ==
  \/ \E x \in FlowPayloads : NewData(x)
  \/ \E i \in Objs, p \in Preds : Filter(i, p)
  \/ \E i \in Objs, f \in Fns, initial \in Initials : Reduce(i, f, initial)
  \/ \E i \in Objs, key \in GetKeys : Get(i, key)
  \/ \E i \in Objs : Relu(i)
  \/ \E i \in Objs : Tanh(i)
  \/ ClockTick

SpecFlow == InitFlow /\ [][NextFlow]_vars

(***************************************************************************)
(* Properties of the functional operators (SpecFlow)                       *)
(***************************************************************************)
(* the positions of s whose element satisfies p, and the j-th of them *)
Sat(p, s) == {k \in 1..Len(s) : ApplyPred(p, s[k])}
Nth(S, j) == CHOOSE k \in S : Cardinality({m \in S : m <= k}) = j

IsFiltered(out, p, s) ==
  /\ Len(out) = Cardinality(Sat(p, s))
  /\ \A j \in 1..Len(out) : out[j] = s[Nth(Sat(p, s), j)]

(* C11: filter on data that is not a sequence (number, text, mapping, None)
   returns the envelope it was called on and changes neither the objects nor
   the registry; on a sequence it returns a new registered child, with the
   operand's key as its parent, holding exactly the elements that satisfy the
   predicate, in their original order *)
C11_FilterPassThrough ==
  [][(ret'.op = "filter" /\ calls' = calls + 1) =>
       LET i == ret'.args[1]
           d == heap[i].data
           c == ret'.ref
       IN IF ~IsList(d)
          THEN ret'.st = "ok" /\ c = i /\ heap' = heap /\ registry' = registry
          ELSE ret'.st = "ok" =>
                 /\ c = Len(heap) + 1 /\ Len(heap') = Len(heap) + 1
                 /\ IsList(heap'[c].data)
                 /\ IsFiltered(heap'[c].data.v, ret'.args[2], d.v)
                 /\ heap'[c].meta.prev = <<heap[i].key>>
                 /\ Read(registry', heap'[c].key) = c]_vars

C11_Witness ==
  /\ ret.op = "filter" /\ ret.st = "ok"
  /\ IsDict(heap[ret.args[1]].data)
  /\ ret.ref = ret.args[1]
  /\ Len(heap) = 1 /\ Len(registry) = 1

(* C12: reduce(fn, initial) on a sequence with an initial value supplied (0,
   empty text and an empty sequence included) is the left fold of fn over the
   sequence starting from initial; without one it folds from the first
   element *)
C12_ReduceUsesInitial ==
  (ret.op = "reduce" /\ IsList(heap[ret.args[1]].data)) =>
    LET s == heap[ret.args[1]].data.v
        want == IF ret.args[3].t # "none"
                THEN Fold(ret.args[2], ret.args[3], s, 1)
                ELSE FunctoolsReduce(ret.args[2], s, None, FALSE)
    IN /\ ret.st = want.st
       /\ want.st = "ok" => PyEq(heap[ret.ref].data, want.val)

Same(x, y) == x.t = y.t /\ x.v = y.v

(* C13: get never fails on a missing element: for a mapping and a key it lacks,
   and for a sequence and an integer index outside its range (too large, or
   negative beyond the length), it returns a child whose data is None; for a
   present key or an index in range (a negative one counting from the end) the
   child's data is the element *)
C13_GetNeverFails ==
  ret.op = "get" =>
    LET d == heap[ret.args[1]].data
        key == ret.args[2]
    IN /\ ret.st = "ok"
       /\ ret.ref = Len(heap)
       /\ IsDict(d) =>
            Same(heap[ret.ref].data,
                 IF KeyName(key) \in DictKeys(d.v) THEN DictGet(d.v, KeyName(key)) ELSE None)
       /\ (IsList(d) /\ IsInt(key)) =>
            Same(heap[ret.ref].data,
                 IF key.v >= 0 /\ key.v < Len(d.v) THEN d.v[key.v + 1]
                 ELSE IF key.v < 0 /\ 0 - key.v <= Len(d.v) THEN d.v[Len(d.v) + key.v + 1]
                 ELSE None)

(* C14: relu and tanh on an envelope whose data is text, a sequence or a
   mapping return that envelope and build no child; on a number each builds
   one child whose parent keys are the operand's key alone *)
C14_ActivationPassThrough ==
  ret.op \in {"relu", "tanh"} =>
    LET i == ret.args[1]
    IN /\ ret.st = "ok"
       /\ NonNumeric(heap[i].data) => ret.ref = i
       /\ IsNum(heap[i].data) =>
            /\ ret.ref = Len(heap) /\ ret.ref # i
            /\ heap[ret.ref].meta.prev = <<heap[i].key>>

(* C17: Scroll(x), construction from data alone, gives for every x, every
   text included, an envelope whose data is x and whose key is generated under
   /scroll/ *)
C17_DataAloneKeepsData ==
  ret.op = "scroll" =>
    /\ ret.st = "ok"
    /\ Same(heap[ret.ref].data, ret.args[1])
    /\ StartsWith(heap[ret.ref].key, <<"/", "scroll", "/">>)

(***************************************************************************)
(* SpecList: envelopes registered under a few paths, cleared and listed    *)
(***************************************************************************)
List(prefix) ==
  Commit([Call("list", <<prefix>>, W) EXCEPT !.keys = ScrollList(registry, prefix)], W)

Paths == {VStr(<<"/", "a", "/", "1">>), VStr(<<"/", "a", "/", "2">>), VStr(<<"/", "b", "/", "1">>)}
Prefixes == {<<"/">>, <<"/", "a", "/">>, <<"/", "b">>, <<"/", "scroll", "/">>, <<"/", "c">>}

InitList == Start(ListCalls)

NextList ==
  \/ \E kd \in Paths \cup {None} : NewScroll(kd, VInt(1), <<>>)
  \/ \E i, j \in Objs : Add(i, j)
  \/ \E prefix \in Prefixes : List(prefix)
  \/ Clear
  \/ ClockTick

SpecList == InitList /\ [][NextList]_vars

(* the first envelope built under key k since the last clear() *)
FirstSince(k) == CHOOSE i \in Since(k) : \A j \in Since(k) : i <= j

(* C15: list(prefix) is exactly the keys registered since the last clear()
   that start with prefix, each once, in the order of their first
   registration; after clear() list is empty for every prefix and read is None
   for every key *)
C15_ListIsRegisteredKeys ==
  /\ ret.op = "list" =>
       LET ks == ret.keys
           want == {heap[i].key : i \in {j \in (clearedAt + 1)..Len(heap) :
                                           StartsWith(heap[j].key, ret.args[1])}}
       IN /\ {ks[n] : n \in 1..Len(ks)} = want
          /\ Len(ks) = Cardinality(want)
          /\ \A m, n \in 1..Len(ks) : m < n => FirstSince(ks[m]) < FirstSince(ks[n])
  /\ ret.op = "clear" =>
       /\ \A prefix \in Prefixes : ScrollList(registry, prefix) = <<>>
       /\ \A k \in KeysBuilt : Read(registry, k) = 0

C15_Witness ==
  /\ ret.op = "list"
  /\ ret.args[1] = <<"/", "a", "/">>
  /\ ret.keys = <<<<"/", "a", "/", "1">>, <<"/", "a", "/", "2">>>>
  /\ Read(registry, <<"/", "b", "/", "1">>) # 0

(***************************************************************************)
(* Properties of lineage (SpecBack)                                        *)
(***************************************************************************)
(* the number of parent paths of fewer than d hops that start at object s and
   resolve through the registry at every hop (s = 0: unresolved) *)
RECURSIVE PathCount(_, _), PathCountPrev(_, _, _)
PathCount(s, d) ==
  IF d <= 0 \/ s = 0 THEN 0 ELSE 1 + PathCountPrev(heap[s].meta.prev, 1, d)

PathCountPrev(prev, k, d) ==
  IF k > Len(prev) THEN 0
  ELSE PathCount(Read(registry, prev[k]), d - 1) + PathCountPrev(prev, k + 1, d)

ResolvedParents(i) == SelectSeq(heap[i].meta.prev, LAMBDA k : ~Absent(k))

(* C16: lineage(depth) returns nothing for depth <= 0; otherwise the envelope
   itself first, then one descriptor per resolvable parent path of fewer than
   depth hops, in pre-order, and nothing at depth hops or more: lineage(1) is
   the envelope alone, lineage(2) adds its resolvable parents in order *)
C16_LineageDepthBounded ==
  ret.op = "lineage" =>
    LET i == ret.args[1]
        depth == ret.args[2]
        tr == ret.trace
    IN /\ ret.st = "ok"
       /\ depth <= 0 => tr = <<>>
       /\ depth >= 1 => Len(tr) >= 1 /\ tr[1] = Descriptor(heap[i])
       /\ depth = 1 => Len(tr) = 1
       /\ Len(tr) = PathCount(i, depth)
       /\ depth = 2 =>
            [k \in 1..(Len(tr) - 1) |-> tr[k + 1].key] = ResolvedParents(i)

C16_Witness ==
  /\ ret.op = "lineage"
  /\ ret.args[2] = 1
  /\ Len(ResolvedParents(ret.args[1])) = 2
  /\ Len(ret.trace) = 1
  /\ ret.trace[1].key = heap[ret.args[1]].key

(* C18: meta.version increments on each write: an envelope registered under a
   key that holds an envelope has the version of the envelope it replaces
   plus one, and the first write to a key has version 1 *)
C18_VersionIncrementsOnWrite ==
  \A i \in Objs :
    i > clearedAt =>
      LET earlier == {j \in Since(heap[i].key) : j < i}
      IN heap[i].meta.version =
           IF earlier = {} THEN 1 ELSE heap[Latest(earlier)].meta.version + 1

(***************************************************************************)
(* SpecOrder: numeric graphs of + and * over leaves -1 and 1 with explicit *)
(* and generated keys, so that a child can get the generated key of one of *)
(* its ancestors; backward from any envelope                               *)
(***************************************************************************)
InitOrder == Start(OrderCalls)

NextOrder ==
  \/ \E kd \in {KeyA, None}, d \in {VInt(-1), VInt(1)} : NewScroll(kd, d, <<>>)
  \/ \E i, j \in Objs : Add(i, j)
  \/ \E i, j \in Objs : Mul(i, j)
  \/ \E i \in Objs : Backward(i)
  \/ Clear
  \/ ClockTick

SpecOrder == InitOrder /\ [][NextOrder]_vars

(* C19: the order list of backward() holds each key at most once, and every
   node stands in it after all its parents that resolve through the registry;
   so in the reverse iteration a node's rule is invoked only after the rules
   of all nodes of the list that name it as a parent *)
C19_OrderListIsPostOrder ==
  ret.op = "backward" =>
    LET topo == ret.topo
    IN /\ \A m, n \in 1..Len(topo) : m # n => heap[topo[m]].key # heap[topo[n]].key
       /\ \A n \in 1..Len(topo) : \A p \in Parents(topo[n]) :
            ~Absent(p) => \E m \in 1..(n - 1) : topo[m] = Read(registry, p)
       /\ \A m, n \in 1..Len(ret.ran) :
            heap[ret.ran[n]].key \in Parents(ret.ran[m]) => m < n

Reverse(seq) == [k \in 1..Len(seq) |-> seq[Len(seq) + 1 - k]]

(* C20: backward() from any envelope completes, also with shadowed keys,
   parent keys that resolve to envelopes built later and an envelope whose
   parent keys hold its own key: the order list is finite (no longer than the
   registry plus the terminal), no node is in it twice, and the rules invoked
   are those of its nodes, each exactly once, the terminal's first *)
C20_BackwardCompletesOncePerNode ==
  ret.op = "backward" =>
    /\ ret.st = "ok"
    /\ Len(ret.topo) >= 1 /\ ret.topo[Len(ret.topo)] = ret.args[1]
    /\ Len(ret.topo) <= Len(registry) + 1
    /\ \A m, n \in 1..Len(ret.topo) : m # n => ret.topo[m] # ret.topo[n]
    /\ ret.ran = Reverse(ret.topo)
    /\ \A x \in {ret.topo[k] : k \in 1..Len(ret.topo)} : Occurrences(ret.ran, x) = 1

C20_Witness ==
  /\ ret.op = "backward" /\ ret.st = "ok"
  /\ heap[ret.args[1]].key \in Parents(ret.args[1])
  /\ Read(registry, heap[ret.args[1]].key) = ret.args[1]
  /\ ret.ran = <<ret.args[1]>>

(***************************************************************************)
(* Repeated backward passes over small graphs: up to two leaves, up to two *)
(* operator applications, then passes from any envelope                    *)
(***************************************************************************)
PassCalls == 5

InitPass == Start(PassCalls)

NextPass ==
  \/ calls < 2 /\ \E kd \in {KeyA, KeyB, None}, d \in {VInt(-1), VInt(2)} :
       NewScroll(kd, d, <<>>)
  \/ calls \in 1..2 /\ \E i, j \in Objs : Add(i, j)
  \/ calls \in 1..2 /\ \E i, j \in Objs : Mul(i, j)
  \/ calls >= 2 /\ \E i \in Objs : Backward(i)
  \/ ClockTick

SpecPass == InitPass /\ [][NextPass]_vars

(* C21: when backward() from a terminal has completed, the terminal's
   influence is exactly 1.0, whatever it was before and whatever rules the
   pass invoked *)
C21_TerminalInfluenceIsOne ==
  (ret.op = "backward" /\ ret.st = "ok") => Infl(ret.args[1]) = 1

(* the keys reached from the key set K by following parent keys through the
   registry, n steps deep *)
RECURSIVE KeysBelow(_, _)
KeysBelow(K, n) ==
  IF n = 0 THEN K
  ELSE KeysBelow(K \cup UNION {Parents(Read(registry, k)) : k \in {q \in K : ~Absent(q)}},
                 n - 1)

AncestorKeys(i) == KeysBelow(Parents(i), Len(registry))

(* C22: the graph is acyclic: following parent keys through the registry
   from a registered envelope never leads back to its own key *)
C22_GraphIsAcyclic ==
  \A e \in 1..Len(registry) : registry[e].k \notin AncestorKeys(registry[e].ref)

(***************************************************************************)
(* Every operation against envelopes already built, with Meta objects      *)
(* passed to more than one constructor                                     *)
(***************************************************************************)
FrameCalls == 4

(* Scroll(key, data, e.meta) for an envelope e *)
NewSharing(kd, d, i) ==
  LET w == ScrollInit(W, kd, d, heap[i].meta)
  IN Commit(Call("share", <<i>>, w), w)

InitFrame == Start(FrameCalls)

NextFrame ==
  \/ \E kd \in {KeyA, None}, d \in {VInt(1), VInt(2)} : NewScroll(kd, d, <<>>)
  \/ \E i \in Objs : NewSharing(KeyB, VInt(2), i)
  \/ \E i, j \in Objs : Add(i, j)
  \/ \E i, j \in Objs : Mul(i, j)
  \/ \E i \in Objs : FromWire(i)
  \/ \E i \in Objs : Backward(i)
  \/ Clear
  \/ ClockTick

SpecFrame == InitFrame /\ [][NextFrame]_vars

InfluenceChanged(i) == heap'[i].meta.influence # heap[i].meta.influence

(* C23: no operation changes anything but the influence of an envelope
   already built; influence changes only in backward(); backward() from t
   leaves the registry as it is and changes the influence only of t and of
   envelopes whose key is reached from t by following parent keys (the
   operands of the visited nodes are among them) *)
C23_FrameOfMutation ==
  [][/\ Len(heap') >= Len(heap)
     /\ \A i \in 1..Len(heap) :
          heap'[i] = [heap[i] EXCEPT !.meta.influence = heap'[i].meta.influence]
     /\ (\E i \in 1..Len(heap) : InfluenceChanged(i)) => ret'.op = "backward"
     /\ ret'.op = "backward" =>
          /\ registry' = registry
          /\ \A i \in 1..Len(heap) :
               InfluenceChanged(i) =>
                 \/ i = ret'.args[1]
                 \/ heap[i].key \in AncestorKeys(ret'.args[1])]_vars

(***************************************************************************)
(* transform and map, and passes over graphs with children that carry no   *)
(* rule                                                                    *)
(***************************************************************************)
(* fn(x) for the two functions applied: the identity and x * 2 *)
ApplyUnary(f, x) == IF f = "id" THEN Ok(x) ELSE PyMul(x, VInt(2))

(* a transform whose child hands its influence on to the parent, for
   comparison with ScrollTransform *)
ScrollTransformLinked(w, i, f, op_name) ==
  LET r == ApplyUnary(f, w.heap[i].data)
  IN IF r.st # "ok" THEN Raise(w, r.st)
     ELSE Child(w, r.val, op_name, <<i>>, Rule("add", i, i, 0))

ScrollTransform(w, i, f, op_name) ==
  LET r == ApplyUnary(f, w.heap[i].data)
  IN IF r.st # "ok" THEN Raise(w, r.st)
     ELSE Child(w, r.val, op_name, <<i>>, NoRule)

ScrollMap(w, i, f) ==
  LET d == w.heap[i].data
  IN IF IsIterable(d)
     THEN IF \E k \in 1..Len(d.v) : ApplyUnary(f, d.v[k]).st # "ok"
          THEN Raise(w, "TypeError")
          ELSE Child(w, VList([k \in 1..Len(d.v) |-> ApplyUnary(f, d.v[k]).val]),
                     "map", <<i>>, NoRule)
     ELSE ScrollTransform(w, i, f, "map")

Transform(i, f) ==
  LET w == ScrollTransform(W, i, f, "lambda") IN Commit(Call("transform", <<i, f>>, w), w)

Map(i, f) ==
  LET w == ScrollMap(W, i, f) IN Commit(Call("map", <<i, f>>, w), w)

InertCalls == 5
UnaryFns == {"id", "twice"}
InertPayloads == {VInt(2), VStr(<<"a">>), VList(<<VInt(2)>>), DictP}

InitInert == Start(InertCalls)

NextInert ==
  \/ calls < 1 /\ \E x \in InertPayloads : NewData(x)
  \/ calls \in 1..2 /\ \E i, j \in Objs : Add(i, j)
  \/ calls \in 1..2 /\ \E i, j \in Objs : Mul(i, j)
  \/ calls \in 1..2 /\ \E i \in Objs, f \in UnaryFns : Transform(i, f)
  \/ calls \in 1..2 /\ \E i \in Objs, f \in UnaryFns : Map(i, f)
  \/ calls \in 1..2 /\ \E i \in Objs : Filter(i, "any")
  \/ calls \in 1..2 /\ \E i \in Objs : Reduce(i, "add", None)
  \/ calls \in 1..2 /\ \E i \in Objs, key \in {VStr(<<"p">>), VInt(0)} : Get(i, key)
  \/ calls >= 2 /\ \E i \in Objs : Backward(i)
  \/ ClockTick

SpecInert == InitInert /\ [][NextInert]_vars

(* the operation names of transform, map, filter, reduce and get *)
FunctionalOps ==
  {"lambda", "map", "filter", "reduce"}
    \cup {"." \o Cat(PyStr(k)) : k \in GetKeys}
    \cup {"[" \o Cat(PyStr(k)) \o "]" : k \in GetKeys}

(* n is a child that passes no influence on: one built by transform, map,
   filter, reduce or get, or by + or * over operands that are not numbers
   (and any envelope without a rule) *)
Inert(n) ==
  LET r == heap[n].rule
  IN \/ heap[n].meta.op \in FunctionalOps
     \/ CASE r.kind = "none" -> TRUE
          [] r.kind = "add" -> ~IsNum(heap[r.a].data)
          [] r.kind = "mul" -> ~(IsNum(heap[r.a].data) /\ IsNum(heap[r.b].data))
          [] OTHER -> FALSE

RuleOperands(n) ==
  LET r == heap[n].rule
  IN IF r.kind = "none" THEN {}
     ELSE IF r.kind \in {"add", "mul"} THEN {r.a, r.b} ELSE {r.a}

(* the envelopes reached from those of S through the operands of visited
   nodes whose rule does something, n steps deep *)
RECURSIVE LiveSet(_, _, _)
LiveSet(S, topo, n) ==
  IF n = 0 THEN S
  ELSE LiveSet(S \cup UNION {RuleOperands(m) :
                    m \in {q \in S : ~Inert(q) /\ \E k \in 1..Len(topo) : topo[k] = q}},
               topo, n - 1)

LiveFrom(t, topo) == LiveSet({t}, topo, Len(heap))

BackwardStep == ret'.op = "backward" /\ calls' = calls + 1

(* C24 as claimed: a pass from t leaves the influence of every envelope
   unchanged that t reaches only through children whose rule does nothing *)
C24_NoFlowThroughInertChild ==
  [][BackwardStep =>
       \A x \in 1..Len(heap) :
         x \notin LiveFrom(ret'.args[1], ret'.topo) => ~InfluenceChanged(x)]_vars

(* C24 amended: the same, for a pass that starts with influence 0 on every
   node of its order list but the terminal *)
C24_NoFlowThroughInertChildFromZero ==
  [][(BackwardStep /\ \A k \in 1..Len(ret'.topo) :
                        ret'.topo[k] # ret'.args[1] => Infl(ret'.topo[k]) = 0) =>
       \A x \in 1..Len(heap) :
         x \notin LiveFrom(ret'.args[1], ret'.topo) => ~InfluenceChanged(x)]_vars

C24_Witness ==
  /\ ret.op = "backward" /\ ret.st = "ok"
  /\ \E c, x \in Objs :
       /\ heap[ret.args[1]].rule.kind \in {"add", "mul"}
       /\ heap[ret.args[1]].rule.a = c
       /\ heap[c].meta.op = "lambda" /\ IsNum(heap[c].data)
       /\ Infl(c) # 0
       /\ x # c /\ x # ret.args[1]
       /\ \E k \in 1..Len(ret.topo) : ret.topo[k] = x
       /\ heap[x].key \in Parents(c)
       /\ Infl(x) = 0

(***************************************************************************)
(* Passes over graphs whose parent keys were cleared, reused, rebuilt from *)
(* the wire or taken by a colliding generated key                          *)
(***************************************************************************)
CutCalls == 5

InitCut == Start(CutCalls)

NextCut ==
  \/ calls < 1 /\ \E kd \in {KeyA, None}, d \in {VInt(-1), VInt(2)} : NewScroll(kd, d, <<>>)
  \/ calls \in 1..2 /\ \E i, j \in Objs : Add(i, j)
  \/ calls \in 1..2 /\ \E i, j \in Objs : Mul(i, j)
  \/ calls = 3 /\ Clear
  \/ calls = 3 /\ \E i \in Objs : FromWire(i)
  \/ calls = 3 /\ \E d \in {VInt(-1), VInt(2)} : NewScroll(KeyA, d, <<>>)
  \/ calls >= 3 /\ \E i \in Objs : Backward(i)
  \/ ClockTick

SpecCut == InitCut /\ [][NextCut]_vars

(* the key of o does not resolve to o *)
Cut(o) == Read(registry, heap[o].key) # o

Invoked(n) == \E k \in 1..Len(ret'.ran) : ret'.ran[k] = n

(* what the rule of the terminal t, run on the seed 1.0, adds to o *)
TerminalContribution(t, o) ==
  LET r == heap[t].rule
  IN IF r.kind = "add"
     THEN (IF r.a = o THEN 1 ELSE 0) + (IF r.b = o THEN 1 ELSE 0)
     ELSE (IF r.a = o THEN heap[r.b].data.v ELSE 0)
            + (IF r.b = o THEN heap[r.a].data.v ELSE 0)

(* o is an operand of no invoked node but n *)
OnlyOperandOf(o, n) ==
  \A m \in 1..Len(heap) : (Invoked(m) /\ m # n) => o \notin RuleOperands(m)

(* an invoked rule that does something adds to x *)
FedByInvoked(x) ==
  \E m \in 1..Len(heap) : Invoked(m) /\ ~Inert(m) /\ x \in RuleOperands(m)

(* what a pass from t does around an operand o of the invoked node n whose key
   does not resolve to o: o has the terminal's contribution when the terminal
   is the one node that names it, and an operand of o that no invoked rule
   adds to keeps its influence *)
CutOperandEffect(n, o) ==
  LET t == ret'.args[1]
  IN /\ (n = t /\ o # t /\ ~Inert(t) /\ OnlyOperandOf(o, t)) =>
          heap'[o].meta.influence = Infl(o) + TerminalContribution(t, o)
     /\ \A x \in RuleOperands(o) :
          (x # t /\ ~FedByInvoked(x)) => ~InfluenceChanged(x)

(* C25 as claimed: in a pass from t, an operand o of a visited node whose key
   does not resolve to o still receives the node's contribution, the rule of
   o is not invoked, and the operands of o receive nothing through it *)
C25_CutParentStopsPropagation ==
  [][BackwardStep =>
       \A n, o \in 1..Len(heap) :
         (Invoked(n) /\ o \in RuleOperands(n) /\ Cut(o)) =>
           ~Invoked(o) /\ CutOperandEffect(n, o)]_vars

(* C25 amended: the same, where the rule of o is not invoked unless o is the
   terminal of the pass itself *)
C25_CutParentStopsPropagationButTerminal ==
  [][BackwardStep =>
       \A n, o \in 1..Len(heap) :
         (Invoked(n) /\ o \in RuleOperands(n) /\ Cut(o)) =>
           (o # ret'.args[1] => ~Invoked(o)) /\ CutOperandEffect(n, o)]_vars

C25_Witness ==
  /\ ret.op = "backward" /\ ret.st = "ok"
  /\ \E o, x \in Objs :
       /\ o \in RuleOperands(ret.args[1]) /\ Cut(o)
       /\ ~Inert(ret.args[1]) /\ ~Inert(o)
       /\ x \in RuleOperands(o)
       /\ \A k \in 1..Len(ret.ran) : ret.ran[k] # o
       /\ Infl(o) # 0 /\ Infl(x) = 0

(* C26: a pass never sets an ancestor's influence back: an operand of the
   terminal that no other invoked node names has its earlier influence plus
   the terminal's contribution (plus 1 for each leaf of c = a + b, so n after
   n passes), and an envelope no invoked rule adds to keeps its influence *)
C26_PassesAccumulate ==
  [][BackwardStep =>
       LET t == ret'.args[1]
       IN \A x \in 1..Len(heap) :
            x # t =>
              /\ (~Inert(t) /\ x \in RuleOperands(t) /\ OnlyOperandOf(x, t)) =>
                   heap'[x].meta.influence = Infl(x) + TerminalContribution(t, x)
              /\ ~FedByInvoked(x) => ~InfluenceChanged(x)]_vars

C26_Witness ==
  /\ ret.op = "backward" /\ ret.st = "ok"
  /\ LET r == heap[ret.args[1]].rule
     IN /\ r.kind = "add" /\ r.a # r.b
        /\ heap[r.a].rule.kind = "none" /\ heap[r.b].rule.kind = "none"
        /\ heap[r.a].key # heap[r.b].key
        /\ Infl(r.a) = 2 /\ Infl(r.b) = 2
        /\ Infl(ret.args[1]) = 1

(***************************************************************************)
(* Operators with a raw right or left operand                              *)
(***************************************************************************)
(* self + other for a raw other: other is wrapped, and registered, first *)
ScrollAddRaw(w, i, raw, dt) ==
  LET w1 == Wrap(w, raw)
  IN ScrollAdd(Tick(w1, dt), i, w1.ref)

(* other + self for a raw other: __radd__ is self.__add__(other) *)
ScrollRAdd(w, i, raw, dt) == ScrollAddRaw(w, i, raw, dt)

ScrollMulRaw(w, i, raw, dt) ==
  LET w1 == Wrap(w, raw)
  IN ScrollMul(Tick(w1, dt), i, w1.ref)

(* self + Scroll(-other) for a raw other *)
ScrollSubRaw(w, i, raw, dt) ==
  LET r == PyNeg(raw)
  IN IF r.st # "ok" THEN Raise(w, r.st) ELSE ScrollAddRaw(w, i, r.val, dt)

(* self * (Scroll(other) ** -1) for a raw other *)
ScrollDivRaw(w, i, raw, dt, dt2) ==
  LET w1 == Wrap(w, raw)
      w2 == ScrollPow(Tick(w1, dt), w1.ref, -1)
  IN IF w2.st # "ok" THEN w2 ELSE ScrollMul(Tick(w2, dt2), i, w2.ref)

AddRaw(i, raw, dt) ==
  LET w == ScrollAddRaw(W, i, raw, dt) IN Commit(Call("add", <<i, raw>>, w), w)

RAdd(raw, i, dt) ==
  LET w == ScrollRAdd(W, i, raw, dt) IN Commit(Call("radd", <<raw, i>>, w), w)

MulRaw(i, raw, dt) ==
  LET w == ScrollMulRaw(W, i, raw, dt) IN Commit(Call("mul", <<i, raw>>, w), w)

SubRaw(i, raw, dt) ==
  LET w == ScrollSubRaw(W, i, raw, dt) IN Commit(Call("sub", <<i, raw>>, w), w)

DivRaw(i, raw, dt, dt2) ==
  /\ Representable(raw, -1)
  /\ LET w == ScrollDivRaw(W, i, raw, dt, dt2) IN Commit(Call("div", <<i, raw>>, w), w)

RawCalls == 3
Leaves == {VInt(1), VStr(<<"a">>), VList(<<VInt(1)>>), DictP}
Raws == {VInt(-1), VStr(<<"b">>), VStr(<<"/", "b">>), VList(<<VInt(2)>>), DictQP}

InitRaw == Start(RawCalls)

NextRaw ==
  \/ \E d \in Leaves : Len(heap) < 2 /\ NewScroll(KeyA, d, <<>>)
  \/ \E i \in Objs, raw \in Raws, dt \in 0..1 : AddRaw(i, raw, dt)
  \/ \E i \in Objs, raw \in Raws, dt \in 0..1 : RAdd(raw, i, dt)
  \/ \E i \in Objs, raw \in Raws, dt \in 0..1 : MulRaw(i, raw, dt)
  \/ \E i \in Objs, raw \in Raws, dt \in 0..1 : SubRaw(i, raw, dt)
  \/ \E i \in Objs, raw \in Raws, dt \in 0..1 : DivRaw(i, raw, dt, 0)
  \/ \E i, j \in Objs : Add(i, j)
  \/ \E i, j \in Objs : Mul(i, j)
  \/ \E i, j \in Objs : Sub(i, j, 0, 0)
  \/ \E i, j \in Objs : Div(i, j, 0)
  \/ \E i \in Objs, n \in PowExps : Pow(i, n)
  \/ ClockTick

SpecRaw == InitRaw /\ [][NextRaw]_vars

(* C27: when +, *, -, / or ** raises a type error, the registry holds the
   same keys and the same envelope under each key as before the call *)
C27_TypeErrorLeavesRegistry ==
  [][(calls' = calls + 1 /\ ret'.op \in {"add", "radd", "mul", "sub", "div", "pow"}
        /\ ret'.st = "TypeError")
       => registry' = registry]_vars

(* C28: r + e for a raw r and an envelope e has the data of Scroll(r) + e,
   and the child's parent keys are the key of the wrapped r, then the key
   of e *)
C28_ReflectedAddIsLeftFirst ==
  (ret.op = "radd" /\ ret.st = "ok") =>
    LET e == heap[ret.args[2]]
        r == heap[ret.ref - 1]
        c == heap[ret.ref]
        sum == AddResult(r.data, e.data)
    IN /\ sum.st = "ok" /\ Same(c.data, sum.val)
       /\ c.meta.prev = <<r.key, e.key>>

(***************************************************************************)
(* Hokage: parallel dispatch (jutsu.py shadow_clone_army, hokage.py        *)
(* parallel_parse).  A worker thread runs one clone on one task; the       *)
(* calling thread collects the futures as they complete.  The outcome of   *)
(* the HTTP request is an input: "ok", "empty" (an empty response) or      *)
(* "fail".  The measured duration kept under 'elapsed' is left out of the  *)
(* data.                                                                   *)
(***************************************************************************)
JutsuLibrary == {"parse_invoice", "summarize"}

(* jutsu.name *)
JutsuTitle(j) == IF j = "parse_invoice" THEN "Invoice Parsing Jutsu" ELSE "Condensation Jutsu"

(* jutsu_name.lower().replace(' ', '_') *)
JutsuLabel(j) == IF j = "parse_invoice" THEN "invoice_parsing_jutsu" ELSE "condensation_jutsu"

(* the placeholders of jutsu.template *)
Placeholders(j) == {"text"}

(* the ninjas the Hokage summons, and the jutsu each knows *)
NinjaNames == {"parser", "writer"}
NinjaTitle(n) == IF n = "parser" THEN "Parser" ELSE "Writer"
Knows(n) == IF n = "parser" THEN {"parse_invoice"} ELSE {"summarize"}

SchemaMeta(schema, t) == [DefaultMeta(t) EXCEPT !.schema = schema]

Entry(k, v) == [k |-> k, v |-> v]

(* r.json()["response"] for the outcomes "ok" and "other" (two different
   texts) and "empty" *)
Response(http) ==
  IF http = "ok" THEN VStr(<<"out">>)
  ELSE IF http = "other" THEN VStr(<<"other">>)
  ELSE VStr(<<>>)

(* Ninja._execute of jutsu.py, for a ninja whose jutsu_count is count *)
Execute(w, name, count, title, label, http) ==
  IF http = "fail"
  THEN ScrollInit(w, VStr(<<"/", "ninja", "/", name, "/", "error", "_", ToString(count + 1)>>),
                  VDict(<<Entry("error", VStr(<<"timeout">>)), Entry("jutsu", VStr(<<title>>))>>),
                  SchemaMeta("dojo/error", w.now))
  ELSE ScrollInit(w, VStr(<<"/", "ninja", "/", name, "/", label, "_", ToString(count + 1)>>),
                  VDict(<<Entry("response", Response(http)), Entry("jutsu", VStr(<<title>>)),
                          Entry("model", VStr(<<"qwen2.5:1.5b">>))>>),
                  SchemaMeta("dojo/jutsu_result", w.now))

(* Ninja.perform_jutsu: [w, counted], counted when _execute was entered;
   template.format raises KeyError on a placeholder that kwargs lacks *)
PerformJutsu(w, name, count, known, j, kwargs, http) ==
  IF j \notin known \cap JutsuLibrary
  THEN [w |-> ScrollInit(w, VStr(<<"/", "ninja", "/", name, "/", "error">>),
                         VDict(<<Entry("error", VStr(<<"Unknown jutsu: ", j>>))>>),
                         SchemaMeta("dojo/error", w.now)),
        counted |-> FALSE]
  ELSE IF ~(Placeholders(j) \subseteq DictKeys(kwargs))
  THEN [w |-> Raise(w, "KeyError"), counted |-> FALSE]
  ELSE [w |-> Execute(w, name, count, JutsuTitle(j), JutsuLabel(j), http), counted |-> TRUE]

(* Ninja.use_skill and Ninja.call of hokage.py, for the skill "invoice" of
   the parser and the kwargs text=item *)
UseSkill(w, name, count, item, http) ==
  IF http = "fail"
  THEN ScrollInit(w, VStr(<<"/", "ninja", "/", name, "/", "error", "_", ToString(count + 1)>>),
                  VDict(<<Entry("error", VStr(<<"timeout">>)),
                          Entry("model", VStr(<<"qwen2.5:1.5b">>))>>),
                  SchemaMeta("dojo/error", w.now))
  ELSE ScrollInit(w, VStr(<<"/", "ninja", "/", name, "/", "call", "_", ToString(count + 1)>>),
                  VDict(<<Entry("response", Response(http)),
                          Entry("model", VStr(<<"qwen2.5:1.5b">>)),
                          Entry("prompt", VStr(<<"Parse this invoice", item>>))>>),
                  SchemaMeta("dojo/ninja_result", w.now))

(* a step of a Hokage call: the world it leaves, what the caller holds, the
   Hokage's state and the number of calls begun *)
PoolStep(w, r, p, c) ==
  /\ Len(w.heap) <= MaxObjs
  /\ heap' = w.heap
  /\ registry' = w.registry
  /\ now' = w.now
  /\ ret' = r
  /\ pool' = p
  /\ calls' = c
  /\ UNCHANGED <<clearedAt, budget>>

CallOpen == pool.phase \in {"idle", "returned", "raised"} /\ calls < budget

Pending(n) == [k \in 1..n |-> [st |-> "pending", ref |-> 0]]

Returned(op) == [NoCall EXCEPT !.op = op]

(* the call begins: the unknown ninja is answered at once; otherwise clones
   are made and one task is submitted to the executor for each *)
ShadowCloneArmy(ninja_name, tasks, jutsu_name) ==
  /\ CallOpen
  /\ IF ninja_name \notin NinjaNames
     THEN LET w == ScrollInit(W, VStr(<<"/", "hokage", "/", "error">>),
                              VDict(<<Entry("error", VStr(<<"Unknown ninja: ", ninja_name>>))>>),
                              SchemaMeta("dojo/error", now))
          IN PoolStep(w, Returned("shadow_clone_army"),
                      [pool EXCEPT !.op = "shadow_clone_army", !.phase = "returned",
                                   !.ninja = ninja_name, !.jutsu = jutsu_name,
                                   !.tasks = tasks, !.clones = <<>>, !.fut = <<>>,
                                   !.taken = <<>>, !.results = <<w.ref>>,
                                   !.base = Len(heap)],
                      calls + 1)
     ELSE LET made == pool.clone_count[ninja_name]
          IN PoolStep(W, ret,
                      [pool EXCEPT !.op = "shadow_clone_army", !.phase = "running",
                                   !.ninja = ninja_name, !.jutsu = jutsu_name,
                                   !.tasks = tasks,
                                   !.clones = [k \in 1..Len(tasks) |->
                                                 NinjaTitle(ninja_name) \o "_clone_"
                                                   \o ToString(made + k)],
                                   !.fut = Pending(Len(tasks)),
                                   !.taken = [k \in 1..Len(tasks) |-> FALSE],
                                   !.results = <<>>, !.base = Len(heap),
                                   !.clone_count[ninja_name] = made + Len(tasks)],
                      calls + 1)

(* the call begins: clone(f"_{i}") of the parser for item i, one future each *)
ParallelParse(items) ==
  /\ CallOpen
  /\ PoolStep(W, ret,
              [pool EXCEPT !.op = "parallel_parse", !.phase = "running",
                           !.ninja = "parser", !.jutsu = "invoice", !.tasks = items,
                           !.clones = [k \in 1..Len(items) |-> "Parser_" \o ToString(k - 1)],
                           !.fut = Pending(Len(items)),
                           !.taken = [k \in 1..Len(items) |-> FALSE],
                           !.results = <<>>, !.base = Len(heap)],
              calls + 1)

(* a worker thread runs the k-th future to its end *)
Work(k, http) ==
  /\ pool.phase = "running"
  /\ pool.op \in {"shadow_clone_army", "parallel_parse"}
  /\ pool.fut[k].st = "pending"
  /\ LET w == IF pool.op = "shadow_clone_army"
              THEN PerformJutsu(W, pool.clones[k], 0, Knows(pool.ninja), pool.jutsu,
                                pool.tasks[k].v, http).w
              ELSE UseSkill(W, pool.clones[k], 0, pool.tasks[k], http)
     IN PoolStep(w, ret,
                 [pool EXCEPT !.fut[k] = IF w.st = "ok" THEN [st |-> "done", ref |-> w.ref]
                                         ELSE [st |-> "raised", ref |-> 0]],
                 calls)

(* for future in as_completed(futures): the calling thread takes a finished
   future, and builds the error envelope for one that raised *)
Collect(k) ==
  /\ pool.phase = "running"
  /\ pool.op \in {"shadow_clone_army", "parallel_parse"}
  /\ pool.fut[k].st # "pending"
  /\ ~pool.taken[k]
  /\ LET w == IF pool.fut[k].st = "done" THEN [W EXCEPT !.ref = pool.fut[k].ref]
              ELSE IF pool.op = "shadow_clone_army"
              THEN ScrollInit(W, VStr(<<"/", "hokage", "/", "clone_error">>),
                              VDict(<<Entry("error", VStr(<<"'text'">>)),
                                      Entry("task", pool.tasks[k])>>),
                              SchemaMeta("dojo/error", now))
              ELSE ScrollInit(W, VStr(<<"/", "hokage", "/", "error">>),
                              VDict(<<Entry("error", VStr(<<"'text'">>)),
                                      Entry("input", VStr(<<pool.tasks[k]>>))>>),
                              SchemaMeta("dojo/error", now))
     IN PoolStep(w, ret,
                 [pool EXCEPT !.taken[k] = TRUE, !.results = Append(@, w.ref)],
                 calls)

(* return results *)
PoolReturn ==
  /\ pool.phase = "running"
  /\ pool.op \in {"shadow_clone_army", "parallel_parse"}
  /\ \A k \in 1..Len(pool.tasks) : pool.taken[k]
  /\ PoolStep(W, Returned(pool.op), [pool EXCEPT !.phase = "returned"], calls)

ArmyCalls == 2
MaxTasks == 2
Https == {"ok", "fail"}
Tasks ==
  {VDict(<<Entry("text", VStr(<<"a">>))>>), VDict(<<Entry("txt", VStr(<<"a">>))>>),
   VDict(<<Entry("txt", VStr(<<"b">>))>>)}
TaskLists == UNION {[1..n -> Tasks] : n \in 1..MaxTasks}
ItemLists == UNION {[1..n -> {"a", "b"}] : n \in 1..MaxTasks}

InitArmy == Start(ArmyCalls)

NextArmy ==
  \/ \E n \in {"parser", "nobody"}, tasks \in TaskLists, j \in {"parse_invoice", "summarize"} :
       ShadowCloneArmy(n, tasks, j)
  \/ \E items \in ItemLists : ParallelParse(items)
  \/ \E k \in 1..Len(pool.fut), http \in Https : Work(k, http)
  \/ \E k \in 1..Len(pool.fut) : Collect(k)
  \/ PoolReturn
  \/ ClockTick

SpecArmy == InitArmy /\ [][NextArmy]_vars

(* the envelopes built since the call began *)
Made == (pool.base + 1)..Len(heap)

(* C29: when shadow_clone_army or parallel_parse has returned, the envelopes
   registered during the call have pairwise distinct keys, each is the one
   registered under its key (so the registry does not depend on the order in
   which workers ran and futures were collected), and one envelope was
   returned per task *)
C29_ParallelKeysDistinct ==
  (pool.op \in {"shadow_clone_army", "parallel_parse"} /\ pool.phase = "returned") =>
    /\ \A i, j \in Made : i # j => heap[i].key # heap[j].key
    /\ \A i \in Made : Read(registry, heap[i].key) = i
    /\ Len(pool.results) = Len(pool.tasks)

(***************************************************************************)
(* Hokage.combination_jutsu: the steps run one after another in the        *)
(* calling thread                                                          *)
(***************************************************************************)
(* a value of Meta.to_dict() as data *)
WireValue(name, x) ==
  CASE name \in {"schema", "op"} -> VStr(<<x>>)
    [] name \in {"version", "time"} -> VInt(x)
    [] name = "hash" -> VStr(x)
    [] name = "prev" -> VList([i \in 1..Len(x) |-> VStr(x[i])])
    [] OTHER -> VFloat(x)

(* r.to_dict() as data: key, data and the metadata present on the wire *)
ToDictValue(e) ==
  LET d == ToDict(e)
      names == SelectSeq(<<"schema", "version", "hash", "time", "prev", "op", "influence">>,
                         LAMBDA n : n \in DOMAIN d.meta)
  IN VDict(<<Entry("key", VStr(d.key)), Entry("data", d.data),
             Entry("meta", VDict([i \in 1..Len(names) |->
                                    Entry(names[i], WireValue(names[i], d.meta[names[i]]))]))>>)

(* Hokage.dispatch: [w, counted] *)
Dispatch(w, ninja_name, count, jutsu_name, kwargs, http) ==
  IF ninja_name \notin NinjaNames
  THEN [w |-> ScrollInit(w, VStr(<<"/", "hokage", "/", "error">>),
                         VDict(<<Entry("error", VStr(<<"Unknown ninja: ", ninja_name>>))>>),
                         SchemaMeta("dojo/error", w.now)),
        counted |-> FALSE]
  ELSE PerformJutsu(w, NinjaTitle(ninja_name), count, Knows(ninja_name), jutsu_name,
                    kwargs, http)

(* a context that takes every step's response, present or not, for
   comparison with NextContext *)
NextContextAlways(context, data) ==
  DictMerge(context, <<Entry("previous", DictGet(data.v, "response"))>>)

(* if result.data.get("response"): context["previous"] = result.data["response"] *)
NextContext(context, data) ==
  IF PyTruthy(DictGet(data.v, "response"))
  THEN DictMerge(context, <<Entry("previous", DictGet(data.v, "response"))>>)
  ELSE context

(* the call begins *)
CombinationJutsu(steps) ==
  /\ CallOpen
  /\ PoolStep(W, ret,
              [pool EXCEPT !.op = "combination_jutsu", !.phase = "running",
                           !.mission_count = @ + 1, !.steps = steps, !.context = <<>>,
                           !.results = <<>>, !.received = <<>>, !.base = Len(heap)],
              calls + 1)

(* one turn of the loop over steps: the step is dispatched and has returned,
   or has raised, before the next turn *)
ComboStep(http) ==
  /\ pool.phase = "running"
  /\ pool.op = "combination_jutsu"
  /\ Len(pool.results) < Len(pool.steps)
  /\ LET step == pool.steps[Len(pool.results) + 1]
         kwargs == DictMerge(pool.context, step.kwargs)
         count == IF step.ninja \in NinjaNames THEN pool.jutsu_count[step.ninja] ELSE 0
         r == Dispatch(W, step.ninja, count, step.jutsu, kwargs, http)
     IN IF r.w.st # "ok"
        THEN PoolStep(r.w, [Returned("combination_jutsu") EXCEPT !.st = r.w.st],
                      [pool EXCEPT !.phase = "raised"], calls)
        ELSE PoolStep(r.w, ret,
                      [pool EXCEPT !.results = Append(@, r.w.ref),
                                   !.received = Append(@, kwargs),
                                   !.jutsu_count =
                                      IF r.counted THEN [@ EXCEPT ![step.ninja] = @ + 1] ELSE @,
                                   !.context = NextContext(@, r.w.heap[r.w.ref].data)],
                      calls)

(* return Scroll(f"/hokage/combination_{self.mission_count}", ...) *)
ComboReturn ==
  /\ pool.phase = "running"
  /\ pool.op = "combination_jutsu"
  /\ Len(pool.results) = Len(pool.steps)
  /\ LET n == Len(pool.results)
         w == ScrollInit(W,
                 VStr(<<"/", "hokage", "/", "combination", "_", ToString(pool.mission_count)>>),
                 VDict(<<Entry("steps", VInt(Len(pool.steps))),
                         Entry("results", VList([i \in 1..n |-> ToDictValue(heap[pool.results[i]])])),
                         Entry("final", IF n > 0 THEN heap[pool.results[n]].data ELSE None)>>),
                 SchemaMeta("dojo/combination_result", now))
     IN PoolStep(w, [Returned("combination_jutsu") EXCEPT !.ref = w.ref],
                 [pool EXCEPT !.phase = "returned"], calls)

ComboCalls == 1
MaxSteps == 3
ComboHttps == {"ok", "other", "fail"}
StepKwargs ==
  {<<Entry("text", VStr(<<"a">>))>>,
   <<Entry("text", VStr(<<"a">>)), Entry("previous", VStr(<<"mine">>))>>}
Steps ==
  [ninja : {"parser", "writer", "nobody"}, jutsu : {"parse_invoice"}, kwargs : StepKwargs]
    \cup {[ninja |-> "parser", jutsu |-> "parse_invoice", kwargs |-> <<>>]}
StepLists == UNION {[1..n -> Steps] : n \in 0..MaxSteps}

InitCombo == Start(ComboCalls)

NextCombo ==
  \/ \E steps \in StepLists : CombinationJutsu(steps)
  \/ \E http \in ComboHttps : ComboStep(http)
  \/ ComboReturn
  \/ ClockTick

SpecCombo == InitCombo /\ [][NextCombo]_vars

ComboDone == pool.op = "combination_jutsu" /\ pool.phase = "returned"

ResponseOf(i) == DictGet(heap[pool.results[i]].data.v, "response")

(* the steps were dispatched one after the other, and the envelope returned
   holds their number, their to_dict() in step order and the last one's data *)
ComboRecord ==
  LET n == Len(pool.steps)
      out == heap[ret.ref].data.v
  IN /\ Len(pool.results) = n
     /\ \A i, j \in 1..n : i < j => pool.results[i] < pool.results[j]
     /\ DictGet(out, "steps") = VInt(n)
     /\ DictGet(out, "results") = VList([i \in 1..n |-> ToDictValue(heap[pool.results[i]])])
     /\ IF n = 0 THEN DictGet(out, "final") = None
        ELSE DictGet(out, "final") = heap[pool.results[n]].data

(* the latest response among the steps before i that is not empty *)
LastResponse(i) ==
  LET S == {j \in 1..(i - 1) : PyTruthy(ResponseOf(j))}
  IN IF S = {} THEN None ELSE ResponseOf(CHOOSE j \in S : \A m \in S : m <= j)

(* C30 as claimed: a returned combination has run its steps in order, every
   step after the first received the response of the step before it as
   `previous`, and the envelope records the steps *)
C30_StepsChainInOrder ==
  ComboDone =>
    /\ ComboRecord
    /\ \A i \in 2..Len(pool.steps) :
         Same(DictGet(pool.received[i], "previous"), ResponseOf(i - 1))

(* C30 amended: as `previous` a step receives what its own kwargs give under
   that name, else the latest non-empty response of the steps before it, and
   nothing when no earlier step has one *)
C30_StepsChainLatestResponse ==
  ComboDone =>
    /\ ComboRecord
    /\ \A i \in 1..Len(pool.steps) :
         Same(DictGet(pool.received[i], "previous"),
              IF "previous" \in DictKeys(pool.steps[i].kwargs)
              THEN DictGet(pool.steps[i].kwargs, "previous")
              ELSE LastResponse(i))
    /\ \A k \in 1..Len(pool.steps) :
         ("previous" \in DictKeys(pool.received[k])) <=>
           ("previous" \in DictKeys(pool.steps[k].kwargs) \/ LastResponse(k).t # "none")

C30_Witness ==
  /\ ComboDone
  /\ Len(pool.steps) = 3
  /\ "error" \in DictKeys(heap[pool.results[2]].data.v)
  /\ "previous" \notin DictKeys(pool.steps[3].kwargs)
  /\ PyTruthy(ResponseOf(1))
  /\ Same(DictGet(pool.received[3], "previous"), ResponseOf(1))
  /\ PyTruthy(ResponseOf(3)) /\ ~Same(ResponseOf(3), ResponseOf(1))

====
